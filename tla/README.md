# A verification project for ai-gateway (zk-ai)

The repository is a self-hosted gateway in front of language-model providers
(Python, asyncio, FastAPI, SQLite). One process serves OpenAI-, Anthropic- and
Responses-shaped clients, spreads their requests over many API keys of many
providers, runs agents that may hand work to other programs of the machine, and
keeps an event queue that background workers drain; beside it run a tray icon that
keeps the processes alive and a burner that uses up the credits of accounts.
The files beside this one are TLA+ modules of the parts whose behaviour is made of
interleavings and failures, the TLC configurations that check them, and proofs
of their most important properties for every value of the constants.

Paths below are relative to `src/app/` unless they start with `README.md`,
`tests/`, `scripts/` or `docs/`.

## 1. Inventory

The gateway has one event loop. A handler runs until its next `await`; files and
configuration are read in threads (`asyncio.to_thread`), and workers, agents'
command line tools, burner, tray and operators' editors are other processes. Shared
state lives in plain Python objects (pool, scheduler, limiter), in SQLite (sessions
are serialised by one lock, `database/db.py`), and in YAML, `.env` and JSON files.

| Component | State | Operations | What makes it hard | What must hold |
|---|---|---|---|---|
| Credential pool (`credentials/`) | per key: status, deadline of the rest, failure count, throttle ladder, times of the last error and 429 | candidates (with lazy recovery), report success / failure, park siblings, probes, enable, disable, clear, register, reconcile | requests hold a *list* of keys taken earlier; reports arrive after other requests, probes, the operator or a reload changed the key | statuses, deadlines and counters fit; a shared 429 parks its bucket and nothing else; rests end |
| Session affinity (`credentials/pool.py`, `routing/scheduler.py`) | two bounded dictionaries of session -> key and session -> deployment | read at planning, written at success, applied settings | written by other requests and changed by a hot reload between read and write | a turn goes back to what served the last one unless that could not serve |
| Deployment quarantine (`routing/scheduler.py` 95-277) | per deployment: failure count, quarantine end, time of last failure, short cooldown | visit, note failure, note success | failures of requests that came before the quarantine arrive after it; decay and ladder interact | quarantine is earned, is not shortened by failures, ends |
| Request scheduler (`routing/scheduler.py`, `retry/`) | position in three loops, attempt number, errors, deadline | try, retry, next key, next deployment, abort, open stream, record | order of failures of several upstreams, budgets that run out between attempts, a client that leaves | bounded calls, none after the first byte, honest status, complete audit trail, termination |
| Router and aliases (`routing/router.py`, `aliases.py`, `capability.py`, `strategy.py`, `agent_auto.py`) | alias table, round-robin cursors | rewrite zk-auto, expand, gate, score, order, plan; hot edits | cyclic and nested aliases, gates that would leave nothing, edits while requests are planned | a request that something can serve has a plan, and the operator's switches are obeyed |
| Rate limiter (`routing/limits.py`) | request and token windows per scope, ledger on disk | admit, note tokens, headroom, prune, flush, restore | all-or-nothing over several scopes, write failures, restart | no window is exceeded; a crash forgets little; windows reopen |
| Client APIs and adapters (`api/chat.py`, `messages.py`, `responses.py`, `models/request.py`, `services/history.py`, `providers/`) | a transcript being translated, a stream being reassembled | translate, trim, stream, promote, close | calls and answers out of order, pieces interleaved, an upstream that stops anywhere | upstreams accept the history; clients see the answer, whole and in order |
| Request service and audit (`services/request_service.py`, `usage_service.py`, repositories) | rows of requests, attempts, usage roll-up | start, finish, finish stream, sweep, prune | cancellation between rows, shielded tasks, shared request ids, crash | one final row that is true, no row pending for ever |
| Event center (`services/events/`, `database/repositories/event.py`, `api/events.py`, worker `scripts/agent_worker.py`) | event rows: state, attempts, hops, claim | ingest, claim, complete, decide, schedule and drain reviews, reclaim, restart, purge | every repository call is its own transaction; workers are other processes whose claims and reports get lost, late or doubled | bounded deliveries, group limit, settled stays settled, chains die, everything is settled |
| Agent sessions (`services/agent/service.py`) | rows of sessions, steps, approvals; tasks and futures in memory | create, follow up, run, spawn, approve, reject, cancel, delete, list, restart | rows and tasks change in different steps; children outlive parents; a crash leaves rows without tasks | no tool runs without consent; nothing waits unseen; every run ends |
| Agent CLI delegation and task spaces (`services/agent/cli/`, `taskspace.py`) | lease and state file, pipes, the program's exit | enter a space, approve, start, read, time out, classify, book, release | the program, the timeout, the lease's expiry and crashes are independent | the report is what the program came to; work is done under a lease that lasts |
| Hot reload (`core/config_watch.py`, `core/container.py` 270-347, `core/config_writer.py`) | file and its signature, watcher's seen / pending, loaded mtimes, versions used by router, pool, config | poll, reload (watcher or button), console save | reads happen in threads and before awaits, writes come in between, reloads overlap, the database fails halfway | saves revert nothing, edits take effect |
| Console: providers, models, aliases (`api/admin/`, `core/config_writer.py`, `database/repositories/config.py`) | two files and their templates, memory, alias registry, overrides in the database | upsert, delete, rename, merge, quotas | an operation is several writes, each two renames; reloads and editors come between | memory, file and database agree; no deployment loses its provider, or is put on one that is not there but by a merge |
| Console: keys (`api/admin/providers.py`, `.env`) | `.env`, the environment, the YAML, the pool | add, rotate, rename, delete, enable, disable | three stores written one after the other | a key that was given is served and survives a restart; a deleted one does not come back |
| Burner (`scripts/burn_sensenova.py`, `services/burner_service/`) | per account: bookings, parkings, concurrency; per key: cooldown; a ledger file, a configuration file | look, burn, book, park, rebalance, reload, save, reconcile | sliding and anchored windows, reservations in flight, a second writer of the ledger | windows are never overrun; parked accounts come back when there is room; nobody starves |
| Tray and gateway restart (`scripts/tray_launcher.py`, `services/burner_service/restart.py`, `gateway_restart.py`, `systemd_ctl.py`) | one child process, a lock, request files, a heartbeat marker | start, stop, restart (menu, console), quit, heartbeat; systemctl | threads of the tray interleave, files carry the console's requests | one child at most; what the console shows and saves comes true |
| Health service (`services/health_service.py`) | stored probe results | probe a key, a provider, all | the verdict is about the past | see credential pool |
| Container, database, settings | wiring, sessions, parsing | start, stop | what a restart does to the others | see event center, hot reload |
| Model service, event rules, notifications, ChatGPT import, desktop scripts, web console, logging | none of interest | - | - | - |

How they interact:

* The **scheduler** asks the **router** for a plan, the **pool** for keys, the
  **limiter** for admission; it reports every outcome to the pool, to its own
  **deployment health**, to **affinity** and to the **audit**.
* **Probes**, the **console** and **hot reload** change the same credential
  runtimes; nothing orders them with the requests in flight.
* **Reload** replaces router, pool runtimes and configuration one after the other,
  partly in a thread, while requests run; the console writes the files reload reads.
* **Workers** talk HTTP to the **event center**, and ask the gateway itself for
  completions, or **delegate**, to do the work; a **restart** ends all handlers
  and no worker.
* **Agents** call the gateway's own models, wait for approvals given by HTTP, for
  child agents, and for delegated programs.
* The **console** reaches the **burner** through `burner.yaml`, its ledger, and a
  request file the **tray** consumes, or `systemctl`.

The places where this can go wrong in ways a test would hardly reach are the
`hazards` of `PROJECT.json`, each at its line, with the properties that would
catch it, or the reason why none does.

## 2. Modules

| Module | Models | Composes / extends |
|---|---|---|
| `CredentialPool` | `credentials/health.py`, `pool.py`, `cooldown.py`, and what overlaps with them: requests, probes (`services/health_service.py`), operator, reload | - |
| `UpstreamProofs` | proofs about `CredentialPool`, `DeploymentHealth`, `ChatHistory`, `StreamTranslation` and `ClientTurn` | `MCHealth`, `MCClient` |
| `DeploymentHealth` | cooldown and quarantine of deployments | - |
| `RateLimiter` | `routing/limits.py`, the flush loop, start and stop in `core/container.py` | - |
| `RateLimiterProofs` | proofs | `RateLimiter` |
| `RequestContract` | abstract: what the gateway promises of one request | - |
| `Scheduler` | one request through `execute` / `stream` with the decision matrix of `retry/classifier.py` | `INSTANCE RequestContract` (refinement) |
| `SchedulerProofs` | proofs, the refinement and the records of `RequestAudit` among them | `MCScheduler` |
| `SessionAffinity` | sticky keys and deployments of sessions | - |
| `Routing` | aliases, gates, scores, strategies, plan, hot edits | - |
| `RoutingProofs` | proofs about `Routing` and `SessionAffinity` | `MCRouting` |
| `ChatHistory` | transcripts in: `models/request.py`, `services/history.py`, the adapters' messages | - |
| `EventGrammar` | abstract: what a client of a stream may rely on | - |
| `StreamTranslation` | streams out: adapters' chunks, endpoints' events, whole answers | `INSTANCE EventGrammar` (refinement) |
| `ClientTurn` | one turn | `ChatHistory`, `StreamTranslation` |
| `RequestAudit` | rows, attempts and bill of requests | - |
| `WorkQueue` | abstract: a queue with leases and bounded deliveries | - |
| `EventCenter` | events, handlers, workers, restart | `INSTANCE WorkQueue` (refinement) |
| `EventCenterProofs` | proofs, the refinement among them | `EventCenter` |
| `AgentSessions` | sessions, runs, approvals, children, restart | - |
| `AgentSessionsProofs` | proofs | `AgentSessions` |
| `Delegation` | a program or MCP service an agent or worker delegates to, its lease and ledger row | - |
| `ConfigReload` | watcher, reload, saves of one file | - |
| `ConsoleConfig` | the two files entry by entry, memory, registry, database | - |
| `KeyRing` | `.env`, `providers.yaml`, environment, pool | - |
| `ConfigReloadProofs` | proofs about the three | `MCConfigReload` |
| `BurnerLedger` | budget, windows, parkings, ledger file of one account | - |
| `BurnerPace` | workers, accounts, keys, adaptive concurrency | - |
| `Tray` | child process, threads of the tray, console's requests, systemd | - |
| `WorkersProofs` | proofs about `Delegation`, `Tray` and `BurnerLedger` | `MCWorkers` |
| `MCCredentialPool`, `MCHealth`, `MCRateLimiter`, `MCScheduler`, `MCEventCenter`, `MCConfigReload`, `MCAgentSessions`, `MCClient`, `MCWorkers`, `MCRouting` | instances for TLC | see 3 |

`MCScheduler` joins `Scheduler` and `RequestAudit`, `MCRouting` joins `Routing` and
`SessionAffinity`, `MCHealth` joins `CredentialPool` and `DeploymentHealth`,
`MCConfigReload` joins `ConfigReload`, `ConsoleConfig` and `KeyRing`, `MCWorkers` joins
`BurnerLedger`, `BurnerPace`, `Delegation` and `Tray`.

`PROJECT.json`'s `map` names, for every definition that models code, the lines it
stands for. Operators called "mutant: ..." are plausible bugs; each property is
shown to fail when one of them replaces the definition after it.

### Time

No module has a calendar. A timestamp is kept as what the code compares it with: the
time left until a deadline, or the time since an event, saturating at the largest
value that is told apart (rest times at `RestBound`, ages at the decay or recovery
window, `clock` of `BurnerLedger` modulo the week). Behaviours are therefore
infinite and liveness is not cut off by a horizon. Durations are small numbers that
keep the order of the configured ones.

### CredentialPool

`cred[c]` is the `CredentialRuntime` of key `c`, `present` the ids registered,
`req[r]` what a request in flight holds: the list of keys it was offered (a
snapshot, as `candidates()` returns one) and the key in use. `OnSuccess`,
`OnAuthFailure`, `OnThrottle`, `OnTransient`, `Refresh`, ... are the methods of
`health.py` as functions from runtime to runtime; the actions choose to which
keys they apply. `ReportThrottle` is the whole of `report_failure` for a 429,
`_park_throttled_siblings` included; `TakeCandidates` includes the lazy recovery
of all keys of the provider. A probe's verdict may be applied in any state: it
was sent before. Jitter is a choice among the durations in range, after the cap,
as in the code. Left out: rotation weights (an order among usable keys; `Dispatch`
takes any), counters that are only displayed, and `in_flight`, which nothing in the
gateway increments.

### DeploymentHealth

`health[d]` joins `DeploymentHealth` and `_deployment_cooldowns`. A request looks
at the health of a deployment once (`Visit`) and reports failures as long as it
holds it; `HoldLimit` is the longest it can. `inService` is a history variable.

### RateLimiter

A counter is one list of one bucket, `hits` or `token_hits`: a rule that caps both is
two rules here, which share the bucket's name and no list. The list is a function from
age to the number of entries of that age; a token entry is one unit. `ledger` is the
memory, `saved` the file, both ageing with `Tick`, which also drops what is beyond
the window (`_prune`: the code does it when it next looks, and never counts without
having pruned). `Open(k)` is the test of `remaining` and of `admit`; `Admit` looks at
every rule and charges every counter in one step, as it does under the lock.
A rule may be withdrawn and come back with the counters of an earlier life.
History: `sent` is what really went out with each key, which no reload or restart
changes; `since[rule]` how long the limiter has kept count for it; `whole` that the
last write succeeded and left nothing out. Left out: several providers (independent),
`usage()` for the console, the old file format, rules that cannot be parsed.

### Scheduler

The three nested loops are `phase`: `plan` (candidates), `keys`, `sent` /
`backoff` (attempts), `wait` (the queue for a cooling key), `open` (bytes went to
the client). `Matrix` is the table of `classifier.py` with its thirty-odd upstream
errors joined into the rows that differ; `Decide` is `_decide` /
`_decide_open_stream`. What other requests do to pool, limiter and deployment
health appears as nondeterminism: any deployment may be skipped, any keys offered,
any key refused. `mode` distinguishes `execute` from `stream`: the retry budget of
a stream is one for the whole request, that of a chat one per key.

### SessionAffinity

`keyPins` and `depPins` are the two `OrderedDict`s, youngest first: what the code appends
is written in front here, and evicted is what is last. A request is planned
(the bound deployment moves to the front), takes the keys of a deployment (the bound
key moves to the front), and on success writes both bindings with the settings in
force *then*; other requests, expiry, eviction and `apply_affinity_config` come in
between. `TurnsStay` relates a turn to what served the turn before it.

### Routing

`aliases` is the registry, a record per name, `Absent` where there is none. `Expand` is
`AliasRegistry.expand`: aliases among the targets are followed, whether or not they were
seen before, until `MaxDepth`, and only the *result* of each level loses its repetitions
(`Distinct`); so a cycle ends at the depth, not at the second visit. `Nested` is the
recursion as a function of the depth. The candidates are gated (`Passes`: switched on,
context, capabilities, what a deployment requires of a request) with the safety valve that
waives the gates when nothing would be left, scored, sorted by the key of the requested
alias's strategy (`Sorted`), turned by the cursor of a round robin (`Turned`), and the front
model is moved ahead (`Promoted`); the scheduler moves the session's deployment ahead of
that, behind a pinned first (`Attempts`). Weights are ten times the code's, so that they
are integers.

Three of the properties compare this with a definition that does not mention the order of
the code: `ExpandIsReach` (the expansion is what can be reached in so many steps),
`NobodyIsRefused` (somebody is tried when somebody whom the requested name stands for
could serve, exactly those who pass when any does) and `ImagesAreSeen`; `PlansServe` joins
them. `OperatorIsObeyed` joins `OperatorLeads` (a pin is tried first) and `FrontIsTruthful`
(a front model that the reason of the plan names is called, and first). Each names what
the code does against it: `Stranded`, a rewritten request whose new alias names models
that are all off; an alias that says `vision: 0`, which waives the gate for pictures; and
the session's deployment, which goes ahead of a front model that is not pinned. Without
any one of the three the run finds a violation; section 3 quotes what the code's comments
say of the first and the last.

### ChatHistory, StreamTranslation, ClientTurn

A transcript is built item by item as the translators read it (`Read`), with pending
and open calls and deferred images as in `_translate_input`; then trimmed
(`Trim`, oldest rounds first, with the placeholder) and sent. `HistoryIsWhole`: no
order of items leads to an answer without its call or a call without its
answer, nothing is invented, dropped or swapped without trace, and the budget is
kept where it can be. A message whose role is "tool" but that names no call is the
role `orphan`: it closes the round like any message, never begins what is left of a
cut history, and goes upstream as it came. The property says that everything around it
is as it should be, and not that an upstream would take it.

The way out takes an upstream's stream in its dialect (calls numbered or not, whole or in
parts, arguments before names), makes the adapter's chunks, and the endpoint's items:
blocks of Messages, items of Responses, deltas of chat. `StreamingIsNoDifferent` compares with the non-streaming answer built from
the same pieces. `AnswerIsProper` says that hidden thinking stays hidden and what chat and
messages give as the reason for the end: a limit of the upstream, or else calls exactly
when calls are shown. `Ending` is what the upstream says of it, `Reason`, `FinalReason` and
`ReasonTold` the three tables it goes through; the exceptions of the property
(Ollama's "stop", Gemini's malformed call, a word in no table) are cases of them that the
run reaches. `FollowsGrammar` is the refinement of `EventGrammar`: an item is announced
before anything is said in it, all are closed before the answer ends, and nothing follows.

### RequestAudit

A call goes through the awaits of `chat()` or `stream()`: create the row, try
upstreams, record attempts, finish, bill; a client may leave at any of them, the
endpoint may close the generator, a write may fail, the process may die, the start
sweeps what is old enough, the prune removes. `fate` is a history of what really
happened. `RecordIsTrue` holds up to the named ways in which it does not
(`spoilt`, and the cases listed below); `RowsClose` is its liveness.

### EventCenter

`work[h]` is the list of repository calls a handler still has to make: one call is
one transaction under the process-wide lock and one step; other handlers, claims
and reclaims run in between. So `complete` is a check followed, later, by a write
of whatever the state has become, and `ingest` a `Look` followed by a `Create`.
`job[w]` is what a worker believes it has: a claim's answer may be lost, a report
may never arrive (`agent_worker.py` does not send one twice), a worker goes on
while the event is reclaimed and given to another. `Restart` drops all handlers,
gives back every claim (`container.py`, `reclaim_stale(0.0)`) and purges old
events. Rule matching is a nondeterministic outcome; `parallel` is the limit of a
single rule group.

### AgentSessions

Rows (`status`, approvals, steps) are the database; runs (`_Running`), the map
`_running`, the semaphores and the futures are memory, lost in a crash. One step is
one transaction with the code up to the next await. A run waits for its semaphore,
asks the model for a batch of calls, carries them out one by one (read, write with
approval, spawn and wait, delegate), and finishes in a `finally` that must run on
every way out. `Listed` is the listing that marks rows without a run as interrupted.
A follow-up looks at the status alone, as the code does: one that comes while a run still
serves the session is taken, and the session is then `overlapped` (a history variable)
until the process restarts. `ConsentedOnly`: no dangerous call ran that was
not allowed, by approval or mode; `WaitingIsVisible`: a loop parked on an approval
is shown as waiting and reached by the answer, so that its user finds it, unless its
session is overlapped; `ResumableTranscript`: what is stored of a session that is not
overlapped is accepted by an upstream when the session is continued.

### Delegation

`phase` is where the code stands, `proc`, `out`, `piped`, `read` the program and its
pipe, `lease` and `noted` the lock file and the `lease` entry of `state.json`,
`ran` and `booked` the runs and their ledger rows. `Flags` is the table of command
line modes of the adapters. `Verdict` classifies the end, with CodeBuddy's exit 0
when not logged in. Nothing is assumed of the program: it may write for ever less
than a pipe, hang on a prompt, or end in the tick of the timeout.

### ConfigReload, ConsoleConfig, KeyRing

In `ConfigReload` the YAML files are one file, a version is a number and also its
signature. `reload_config` is a sequence of steps that may interleave with a second
reload (watcher and button), with edits and with saves. `good` says whether the file
parses. `disturbed` and `job[c].alone` are history variables that name the
condition under which a load was overtaken by a write or by another reload; the
properties are stated with it.

`ConsoleConfig` looks into the files: an entry per provider with its quota, a model
with its deployments, an alias, templates that stand in for missing files. An
operation checks (`Accepts`), writes in two renames (`Begin`, `Put`), perhaps a
second file (`Retarget`), memory, and database. `mishaps` names the seven known ways
in which memory and file come apart; `MemoryIsFile` and `GateHolds` say there is no
eighth. (The seventh, "orphan", came up when the inductive invariant was looked for:
`sync_config` wipes no table, `database/repositories/config.py:69-70`, so the quota of
the last provider there was stays in the database when that provider goes, and the next
one of its id finds it.) `KeyRing` does the same for secrets: `.env`, then the YAML,
then the clean-up of `.env`, with a crash possible after each; the list of credentials
is a function from entry numbers, and a new entry takes the number of the operation that
adds it. `KeysAreKept` joins that a given key survives restarts, that the pool has what a
restart would load, and that a deleted key is gone.

### BurnerLedger, BurnerPace, Tray

`BurnerLedger` keeps bookings by age for one account; `Look` is `budget_allow`,
`Resume` is `resume_time`, `Reconcile` the gateway's write into the ledger file.
`disturbed` marks a configuration changed under the process and negative bookings
reconciled into it, outside of which reservations and bookings fit both windows.
`BurnerPace` keeps, for each account, concurrency in use, target, loan, streak of
refusals and rest; what happens between two awaits is one step.

In `Tray`, threads (main, heartbeat, one per restart) hold or wait for the lock and
stand at a place in `start()` or `stop()`; children are processes that end at any
time and take any time to end when told. `box` is the request file, `marker` the age
of the heartbeat file the console reads. systemd is a third keeper, which restarts
what dies and never looks at a request file. A configuration (`yaml`, `loaded`) is what
the file says under the keys that need a restart; the hot ones reach a burner that runs
in every summary, which `BurnerLedger!Reload` models. `forgotten` records the children
that a `stop()` forgets without having read them.

## 3. Runs

Ten runs pass, two show a disagreement. A run joins the questions that one
configuration can answer; where parts share no state, the MC module chooses one at
the start (`part`), so that the state space is the sum of theirs and not the product.

| Run | Configuration | Shows | Instance and bounds |
|---|---|---|---|
| `pool_safety` | `MCCredentialPool.cfg` | `FailingKeyIsParked`, `SharedBucketRests`, `BlastRadius` | two keys of one account, two concurrent requests, one operator step (enable, disable, clear, or any reload), quota and frequency 429s; the same keys beside one without an account tag, one request at a time |
| `health` | `MCHealth.cfg` | `QuarantineEarned`, `FailureNeverShortens`, `RestsEnd` | *deployments*: two, two requests, threshold 2, a ladder whose second rung is longer than the decay window. *keys*: two without an account tag, one request with a same-key retry, provider-wide 429s |
| `limits` | `MCRateLimiter.cfg` | `QuotasHold`, `LossIsRecent`, `WindowsReopen` | two keys of one account, two requests, windows of two and three units, one reload between two sets of rules, one restart, flush every two units, one entry of a list fits the file |
| `scheduler` | `MCScheduler.cfg` | `HonestConduct`, `KeepsContract`, `RequestEnds`, `RecordIsTrue`, `RowsClose` | *request*: three deployments of two providers, three keys, four attempts, two deployments, one retry. *audit*: two calls with one request id, two attempts, one mishap |
| `client` | `MCClient.cfg` | `HistoryIsWhole`, `AnswerIsProper`, `StreamingIsNoDifferent`, `FollowsGrammar` | transcripts of five items, no budget or a tight or a wider one, answers of four pieces with two calls, three endpoints, five dialects |
| `events` | `MCEventCenter.cfg` | `DerivedWorkIsTamed`, `KeepsQueue`, `EventuallySettled` | two events that may derive from each other, no hop allowed, two workers, two handlers, two deliveries, group limit one, one restart |
| `events_decide` | `MCEventCenterDecide.cfg` | **violated** `DecidedOnce` | the dedupe window never ends |
| `agents` | `MCAgentSessions.cfg` | `WaitingIsVisible`, `ResumableTranscript`, `ConsentedOnly`, `RunsEnd` | two sessions, the second perhaps a child of the first, one client, batches of two writes or one spawn, one step, one slot of each semaphore, one crash, exception or follow-up of a served session |
| `configuration` | `MCConfigReload.cfg` | `SaveKeepsEdits`, `EditsTakeEffect`, `MemoryIsFile`, `DeploymentsHaveProviders`, `GateHolds`, `KeysAreKept` | *reload*: four writes by editor or console, both callers of a reload, database errors. *files*: two provider ids, one of them in the template, four pieces of work. *keys*: two ids, two variables, two secrets, four pieces of work |
| `routing` | `MCRouting.cfg` | `PlansServe`, `OperatorIsObeyed`, `TurnsStay` | *plans*: three models, four deployments, three aliases nested into each other and followed two deep, six edits on offer, six shapes of requests, one thing off and one edit at a time. *sessions*: two sessions, two requests, two deployments, room for two bindings or one, one failure; sessions, requests and the two keys of a provider are interchangeable |
| `workers` | `MCWorkers.cfg` | `BudgetIsKept`, `ReportsAreTrue`, `SpacesAreKept`, `OneGateway`, `WorkGoesOn`, `ConsoleAndTrayAgree` | *burner*: windows of two and three ticks, two configurations. *pace*: two workers, two accounts with a key each. *delegation*: to CodeBuddy, Qoder or MCP, timeout 2, lease 3, output of up to three chunks of which one is read and one fits the pipe. *tray*: two restart threads, three processes. Two upsets each |
| `workers_systemd` | `MCWorkersSystemd.cfg` | **violated** `SavesTakeEffectEverywhere` | the tray part, with systemd as keeper |

Why the bounds are enough for what they are used for:

* *Pool.* All transitions touch the reported key and its siblings; two keys give a
  reporter and a sibling, the third, untagged, a key outside their bucket and a
  reporter that has none; two requests give every overlap of one report with
  another. The ladder needs two rungs (one that grows, one at the maximum); rests
  of one and two units tell a short from a long rest. `MaxFailures = 2` separates
  the first from the last transient failure.
* *Quarantine.* Threshold 2 and two rungs give below / at / above the threshold,
  the last rung repeats; the longest rung exceeds the decay window, as 7200 s and
  21600 s exceed 3600 s.
* *Scheduler.* Two of three deployments, sharing keys or not, and at most two keys
  of each, exercise every exit of every loop; four attempts are fewer than the
  loops could make, so the ceiling bites.
* *Sessions.* Two sessions and room for one force an eviction; one failure moves a
  turn to the other deployment, and the second request plans before and binds after.
* *Client.* Five items hold two rounds of calls with their answers out of order, or a
  call, a deferred image and a message; a budget of four cuts most of them, one of
  six some. Four pieces interleave two calls, each in two parts, or text, thinking
  and a call. Of two calls that share an id each pair of different kinds (whole, chat
  stream, event stream) is looked at in one order (`Pairs`): the calls are alike and
  nothing orders them, so the other order is a renaming; two calls of one kind meet
  nothing in each other's row that two of different kinds do not.
* *Events.* Two events and a limit of one give contention and the reuse of a
  slot; two deliveries give a first, a last and an exhausted one. With no hop allowed,
  the second event of a chain is the one beyond the limit.
* *Limits.* Two keys and two requests fill a shared window from both sides and leave
  one in flight when a cap is reached; the two sets of rules differ in one rule and
  share the other; a list of two entries is longer than the file takes. Windows
  longer and as long as the flush period occur. Admissions are at most two per key and
  unit (`MaxBurst`), as many as the widest rule allows.
* *Agents.* Parent and child with one slot each is the smallest case in which somebody
  waits for somebody who waits; a batch of two writes parks twice; two segments of a
  delegation can be cut between them. One mishap (`MaxFaults`) is a crash, an exception or
  a follow-up of a session still served, which two runs are enough for.
* *Configuration.* Four writes allow a write before, in and after a reload, twice;
  four operations allow to add, change, remove and add again, with a crash or an
  edit in place of any of them.
* *Routing.* Three aliases nest two levels deep and can form a cycle, so that a depth of two
  reaches everything and the cycle is cut off, as at the code's eight; four deployments of
  three models give each gate something to refuse and something to leave.
* *Workers.* Windows of two and three ticks overlap in every way; requests that cost one
  or two and a limit of three make an account full, nearly full and empty. Two
  accounts and two workers are the smallest case with something to lend; a chunk
  more than the reader takes fills the pipe; three processes are the one that
  runs, the one that was told to end and the one that replaces them.

Symmetry is used only in runs without liveness: over requests (pool), over workers
and handlers (`events_decide`), over sessions, requests and keys (`routing`). `CHECK_DEADLOCK FALSE` appears where the system
really stops: a finished request or call, an event center with nothing left to do,
sessions that have ended, a tray that was quit, and the bounds of operators.

### Disagreements between code and documentation

1. `events_decide`. Two simultaneous decisions both pass the check in `decide()`
   and both open a follow-up, though the comment there and a test say once.
2. `workers_systemd`. The burner page's save asks for a restart with a request file
   (`api/admin/burner.py:75`), which under systemd nobody reads; `restart.py:7-8`
   explains that very case, and the other pages use the function that handles it. What
   stays behind are the keys that need a restart (`_RESTART_ONLY_KEYS`: model, keys,
   account groups, anchors); the burner that runs re-reads the file in every summary and
   takes over the others (`reload_config`), though the endpoint's comment says that it
   reads its configuration only when it starts.

Seen while modelling and named in the models, or outside of what they cover:

* *Pool and quarantine.* `on_success` (`credentials/health.py:92`) writes HEALTHY
  whatever the status was: a response that was on its way when the operator
  disabled the key makes it selectable with `enabled = False`, as a probe's 401 and
  the automatic recovery do. UNHEALTHY keys recover on their own after 300 s though
  `README.md:987` lists only probe and operator; a later report may shorten a quota
  rest; a sibling already in a shorter cooldown is not extended
  (`credentials/pool.py:459`); 529s count towards `max_consecutive_failures`. A
  quarantine of 7200 s outlasts the decay window, so a deployment without traffic
  counts as one that behaved (`routing/scheduler.py:240`) and the rung of 21600 s is
  not reached.
* *Scheduler and limits.* A client that leaves an open stream leaves an attempt
  without outcome (`routing/scheduler.py:1025`), which the module docstring says is
  recorded as `cancelled`; the no-key path raises the attempt number without
  looking at the ceiling (668, 899); retries on one key are not admitted again
  (687). `RateLimiter.flush()` calls the counters clean before it writes them and
  swallows the `OSError`, so a failed write is repeated only after the next
  admission, not "下个周期再试" (`core/container.py:214`, `routing/limits.py:393`);
  only the 5000 newest entries of a list are written; two rules of one scope and
  window share a bucket and charge it twice.
* *Affinity.* Switching affinity off and on leaves the old bindings in force; a
  request planned while it was on still binds its deployment, not its key, after it
  was switched off; a smaller room takes effect at the next binding only.
* *Routing.* `_servable_aliases` asks whether an alias names models, not whether they can
  be called: it says that a non-empty expansion means that "plan() 走得通"
  (`routing/router.py:213-218`), and `_available` that zk-auto steps in when "every model
  on it is unreachable" (`routing/agent_auto.py:139-158`), but a zk-auto request that is
  rewritten to zk-long is refused while the models of zk-long or their providers are
  switched off, though those of zk-auto could serve (`Stranded`). A sticky deployment is
  moved ahead of a front model unless the alias has `pin_first`
  (`routing/scheduler.py:321-346`), so that the reason names a front model that is called
  second or not at all, against "always leads the attempt order when it is eligible"
  (`models/provider.py:251-254`) and "the routing reason cannot claim an order the
  scheduler will not follow" (`routing/router.py:396-397`). `pin_first` is ignored by four
  strategies; the round-robin cursor is
  also moved by previews and shared by requests with different eligible sets, and
  rotates over lower priorities; a hot swap drops `front_model`; a `front_model`
  that names an alias passes the API's check and never matches; the safety valve
  promotes a front model without saying so; aliases in a cycle expand in an order
  that depends on where one starts, and no check reports the cycle.
* *Turn.* An item of role "tool" (`models/request.py:479`) goes upstream without a
  `tool_call_id`, as a result for "unknown" to Anthropic and under the name "function" to
  Gemini: the role `orphan`. Gemini's MALFORMED_FUNCTION_CALL is given the reason
  `tool_calls` though no call comes with it (`providers/gemini.py:69`), so that an agent is
  told to run tools that are not there; a reason in no table is passed on by
  chat, while `/v1/messages` calls it "end_turn" even when there are calls
  (`api/messages.py:193`), Anthropic's own "refusal", too; `/v1/responses` remembers the reason and
  never shows it (`api/responses.py:114`, `162`), so that an answer that hit a limit is
  `completed` there.
  Answers of overlapping rounds stand after the wrong message; a deferred
  image comes after a later message; the trimmed request may exceed the budget by
  its tools' schema (`services/history.py:160`); Ollama numbers its calls anew in
  every message and ends with "stop" when there are calls; a Gemini stream shows
  thoughts that the whole answer drops; an OpenAI-compatible stream moves reasoning
  into the text before it can know that text follows; an Anthropic stream cannot
  promote an answer that is only thinking; `/v1/messages` shows promoted thinking
  under `strip_reasoning` when it does not stream; a stream that ends early counts
  as complete.
* *Requests.* Errors of `chat()` without attempts are recorded with `attempt_count`
  0; on an error event `/v1/messages` and `/v1/responses` close the generator, so that
  the row says cancelled; a cancellation while usage is recorded leaves the row
  pending; a client that leaves in mid-stream is never billed; a reused
  `X-Request-Id` shares one row; rows younger than 900 s at a restart stay
  pending until a later one; a client that left does not keep its request from
  going upstream (`services/request_service.py:494-498`, `README.md:1302`).
* *Events.* `complete()` may overwrite another verdict
  (`services/events/service.py:283`, `296`); two concurrent `ingest` calls may
  both create; a crash between taking and emitting due reviews loses them
  (`api/events.py:137-143`); the purge removes events that wait for a decision; a
  restart requeues events whose workers still run.
* *Agents.* A follow-up decides by the status in the row, which a listing, a cancellation
  or the task itself may have ended before the run is over, so two loops may run on one
  transcript (`services/agent/service.py:210-222`), the first out of reach of answers and
  cancellations, and a status written by one speaks for both: `WaitingIsVisible`,
  `ResumableTranscript` and the liveness of runs say nothing of such a session
  (`overlapped`); an exception between registering
  a run and storing attachments makes its session undeletable (221, 658); the
  listing may overwrite "done" by "interrupted"; a cancellation is seen at the top of
  the loop only (652); the approved difference of a `write_file` that appends is not
  what is written when the file changed meanwhile; a parent that ends cancels whatever
  run its child's session has now; a crash in a batch leaves calls without results.
* *Delegation.* The lease is taken before the approval and once for a batch, so that
  work is not always covered (`taskspace.py:159-161`); a directory named
  explicitly takes no lease; a program that writes more than is read hangs on the
  full pipe until the timeout, though `runner.py:31` says the rest is dropped; Qoder's
  `default` mode is passed although the docstring says never (`adapters.py:110-113`);
  a timeout books no tokens although a comment says it does (`runner.py:204`); the
  preview of an approval does not show the bypass mode; a crash leaves the program
  running. The race for an expired lease (`taskspace.py:186`) needs two executors of
  one id, and ids are always new.
* *Reload and console.* `refresh_config_watch()` adopts the signature of the *end* of a
  reload, so an edit during it is not loaded (`core/config_watch.py:17`);
  the reconcile removes the synthetic key of keyless providers
  (`core/container.py:305-307`); an overlapping reload overwrites a console change; a
  crash between two renames loads the template at the next start; a rename that
  is refused for the second file has changed the first; a page that calls
  `load_app_config` re-arms the gate; the merge changes memory before it writes, and
  does not ask whether the providers of the deployments it adds exist
  (`api/admin/models.py:79-96`; the save of a whole model does, `106-121`), so that it
  may leave a deployment without a provider, which the router then never chooses
  (`astray` in `ConsoleConfig`);
  deleting the last alias brings the default ones back; refused writes surface as 500;
  the quota of the last provider outlives it in the database
  (`database/repositories/config.py:69-70`).
* *Keys.* Adding an id twice appends it to the file and replaces it in memory; a variable
  renamed to one in use overwrites its key; a variable of two providers leaves the
  other's pool with the old key; enable and disable are not stored, and
  `register_provider` undoes them.
* *Burner.* The estimate is made once while rates are reloaded, so a dearer request may
  overrun what was reserved; the absolute limit is overrun by what is in flight (804);
  `maybe_global_backoff` can never act; both left_5h and left_week in one
  reconciliation count twice; a reconciliation while the burner runs is
  overwritten; parkings are not stored; an exhausted burner is restarted by systemd
  for ever; a mix of dead keys and exhausted accounts meets neither end condition
  (1034, 1504); with fewer workers than accounts the first one is always preferred;
  several 429s of one burst halve the target several times.
* *Tray.* `stop()` takes no lock (`tray_launcher.py:281-285`). When it overlaps a restart
  thread in `start()` it can do nothing, or forget the burner that thread has just put
  up: the burner goes on burning with the configuration it started with, no stop and no
  restart reaches it, and the console says that none runs. This is the exception
  `forgotten` of `ConsoleAndTrayAgree`. A quit that
  races such a thread can leave a child too; a failed start has nobody to repeat it; the
  exit codes of the port guard are not looked at; a heartbeat that is blocked makes
  the console say "not running".

### Fairness

* `CredentialPool`, `DeploymentHealth`: weak fairness of `Tick` - time passes.
  Recovery is lazy, so no action of the pool itself is needed for a rest to end:
  `IsUsable` accepts an expired one. `DeploymentHealth` also lets a request leave
  its deployment: calls time out and attempts and wall clock are bounded.
* `RateLimiter`: weak fairness of `Tick` and of the flush loop. Nobody has to send
  anything; windows slide without being looked at.
* `Scheduler`: weak fairness of the request's own steps: the event loop runs it,
  and each upstream call is answered or times out (`request_timeout`). The time
  budget need not ever run out. `TurnsStay` is an action property and needs none.
* `RequestAudit`: weak fairness of the next step of each call, for the same reason.
  `MCScheduler` asks for both, each in its part.
* `EventCenter`: weak fairness of each handler's next call, of each worker's
  polling and of the end of its job (the worker has a timeout), and of the reclaim
  of each event whose claim has expired: any poll looks for them
  (`_maybe_reclaim`). Sources, humans and reviews are not assumed to do anything.
* `AgentSessions`: weak fairness of each run's next step, of the start after a crash,
  of the listing that marks orphans (the console polls it) and of the user's answer
  to an approval that is *shown*; strong fairness of entering a semaphore, which
  asyncio serves first come, first served.
* `ConfigReload`: weak fairness of the watcher's poll and of each reload's steps.
  Nobody is assumed to press the button or to write.
* `BurnerLedger`, `BurnerPace`: time, workers that come back, requests that end
  (they time out), the summary, and the service manager's restart.
* `Delegation`: time, the gateway's own steps and the timeout. Nothing is assumed of
  the program, the MCP service or the person who approves.
* `Tray`: its threads' steps, its ticks, and the rest of a save under way. Nobody
  is assumed to click, to save or to edit.

`MCWorkers` states four conditions for its four parts, each a disjunction with one
kind of progress per part. A behaviour stays in its part, so for a behaviour of one
part each condition is that part's own, or, where a part has several actions in one
condition, weaker than a condition for each: what holds under it holds under theirs.

## 4. Proofs

All theorems hold for every value of the constants that satisfies the named
assumptions of the module; TLC evaluates those assumptions in the runs. Every safety
property of a passing run is the statement of a theorem.

**UpstreamProofs.** *Credentials.* The inductive invariant says of *every* credential that
it is `Sound`: a well-typed runtime in which HEALTHY and UNHEALTHY carry no
deadline, COOLDOWN carries one, and HEALTHY means fewer than `MaxFailures` failures.
The two properties are not inductive apart from the type: that `Refresh` may
leave the deadline of an UNHEALTHY key alone rests on it having none. Each method
of `health.py` is a lemma ("sound in, sound out"), so the actions, which only
choose the keys, need a line each. `BlastRadius` and `SharedBucketRests` are action
properties; they follow from what `Throttled` does to a key and from soundness of
the reporter.

*Deployments.* `QuarantineEarned` needs more than itself: a failure
may reset a decayed count while an old quarantine is still on. The invariant adds
that a request holding a deployment arrived when it was not quarantined and has held
it for `age` only, so that a quarantine imposed since is younger than the decay
window (`HoldLimit <= DecayAfter`: twice 300 s against 3600 s). That is the one
fact about durations the result depends on, and the reason for the assumption (`HealthAssumption`).

*Answers.* The three properties of the client's stream and the refinement of `EventGrammar`
rest on one invariant, `TurnInv`. Events wait in the outbox when a chunk has been taken, so
what the client has been shown lags behind what the assembler believes. `Story` says that
the waiting events lead from the one to the other: each opens the next item, speaks in one
that is open by then, or closes it, the end comes last and closes all. `Tells` speaks of the
items as they will have been shown: each says, in rising order, exactly the pieces of its
kind, or of its call as long as no number of a call was given twice (`bursts <= 1`). A step
that sends extends both together, `Yield` takes the head of the story and leaves its end
where it was. `FedCalls` is a recursive function of the parts of a chunk, so that feeding
keeps both is an induction over them. `InOrder(P)`, the pieces of a set in order, is unique:
two rising lists of the same numbers agree, by the least place where they would not
(`SetInduction` is the form of induction used throughout, over sets of numbers). `StreamsAgree`
then compares, by cases on the dialect, on hiding and on `OnlyThinking`, the items with what
the adapter's other method makes of the same pieces. The theorems hold for any set of
dialects and any number of pieces and calls. For the reason (`StopIs`) it is enough that
Gemini's adapter has numbered as many calls as were sent.

*Transcripts.* `HistoryIsWhole` speaks of what is sent; what has to hold on the way there
is `Half(messages, open)`: in the messages made so far all is well but for the last round
of calls, in which just those of `open` are still without an answer. It is about operators
on sequences alone, and so are its lemmas: a history with nothing open goes on with any
other (`HalfConcat`), tool messages that answer open calls close them (`HalfTools`), and an
end of a whole history that does not begin with a tool message is whole (`HalfSuffix`).
The second half of the invariant ties the lists of the translator to the transcript: the
calls in `openCalls \o pending` are, each once, those that are `Waiting`, for which an
output would still be due; the open ones have an output after them and the pending ones have
none, so that where both lists hold calls the client has called in the middle of a round
(`Overlapping`), the case the property leaves out (`OneKindWaits`). Each kind of item
then keeps `ResponsesRead`, each turn `MessagesRead`. At the end: `Trim` cuts at the
place the walk backwards found (`WalkFacts`, an induction over the walk: the place is the
earliest that fits and is not a tool's), so `HalfSuffix` applies; Anthropic's list of turns
has, after each message, answered just what the messages have (`TurnedOn`; an orphan that
joins a turn changes none of its results), and Gemini
finds the call of every response before it (`Caller`). `Tokens`, the walk and the turns
are recursive functions, known by `Iteration` to exist. The theorem holds for any
bound on items, any budgets, reserve and cost of the tools that are natural numbers.

**RoutingProofs.** *Plans.* What the router promises it promises of any registry, any
switches and any cursors of their types, not only of those that come about, so the
inductive invariant is `TypeOK`; that every edit, reload and plan keeps it is
`RoutingTypeCorrect`. The work is in the operators a plan is made of, whose values TLC
computes and the prover has to know from their definitions:

* `Expand` is a recursive function of the depth. That such a function exists and unfolds is
  an induction over the set of depths at which it does (`SetInduction`), carried out once
  for any step (`Iteration`); `NestedIsReach` then shows, from the deepest level up, that
  the models at a level are those an alias leads to in the steps that are left. It needs
  that the steps may be counted from either end (`Prepend`).
* `FlattenSeq`, `Distinct` and `Picked` keep what their parts hold, `Distinct` once each.
* `Ascending` chooses a sorted list; that there is one for any finite set in a strict order
  puts each element in the place given by how many are lesser (`Sorting`), and tuples of one
  length are in such an order (`TuplesAreOrdered`).
* `Lists(s, S)` says that s holds every element of S once. A sorted, a turned list
  and one with an entry moved ahead list the same (`SortedFacts`, `RotatedLists`,
  `AheadLists`, `PromotedLists`, `AttemptsLists`), whence `PlanFacts` and with it that
  nobody is lost on the way from the candidates to the attempts.
* The first of a sorted list has the least key, so a pinned first model leads where the key
  begins with its place; a turn of a round robin is excluded by the strategies
  `OperatorLeads` speaks of, and the session's deployment goes behind it.

The theorems hold for any models, deployments, capabilities, windows, aliases and shapes of
requests and any depth. Assumed are the types (`RoutingAssumption`): names are strings,
"none" names no model, capabilities are natural numbers, deployments are finitely many.

*Sessions.* `TurnsStay` of `SessionAffinity` is about a step, and what makes the step go
right is far back: that the session was served, and that nothing since has taken its
bindings. `DueAreBound` says it of every session that is due: both dictionaries bind it to
what served it last, for the time it has left, and each binding before its own is of a
session served since (`others`). A dictionary binds a session once (`OneEach`), so the
bindings before it are no more than those sessions (an injection), and while they are fewer
than there is room for an eviction takes another; a lookup takes what has expired only. That
the two dictionaries agree (`PinsAgree`) needs `SideBySide`: their younger parts are the same,
binding for binding, and all that is older has expired in both (`Aligned`), because with one
time to live the order of the bindings is the order in which they expire (`Aging`). The
theorem is for any sessions, requests and settings, with finite sets of keys and deployments
(`AffinityAssumption`).

**RateLimiterProofs.** `LossIsRecent` is inductive with the types: without a write
due, file and memory agree at every age; with one due, above the age `phase`. What
has to be seen is that every change of a counter makes a write due, or changes
nothing because no rule asks for it, and that file and memory age alike. `QuotasHold`
compares sums over windows. Those are stated as cardinalities of sets of entries, and
`Covered` maps what was sent within an age, for each age up to the time a rule has kept
count, into what its list has of that age, by an injection; the cap then follows from
the test in `admit`. It has to be said of *every* age, since a tick turns the count of
one age into that of the next. A restart may lose entries and starts the count anew
(`since`), which is why nothing has to be covered beyond it. A token rule is exceeded by
what was admitted before it was full: `Contained` bounds that by the requests that may
still answer. `RequestQuotaHolds` (request rules) has no hypothesis. `QuotasAreKept` (both)
has `OneRuleEach`, that no plan caps the same thing twice in the same windows: two such
rules share one list, each call is entered twice, and the counts no longer say how many
requests there is room for.

**SchedulerProofs.** The invariant joins `Typed`, `Honest` (what the last error
says about where the loops may stand), `Prudent` (what a failure allows next) and
`Books` (the log holds one outcome for each number up to the current attempt).
From these follow the three parts of `HonestConduct`, and `ContractKept`:
the detailed scheduler implements `RequestContract` under the refinement mapping
of the module. The count of settled calls is the cardinality of the log less the
attempts that sent nothing; `Balance` relates it to the calls made. `RecordIsTrue`
speaks of closed rows of `RequestAudit`. Its invariant says what the gateway knows of a
call at each of its awaits (`Shaped`), that only calls whose finalizer has got that far
have been billed (`Billed`), and, of an id that no failed write and no crash has
spoilt, that its row is there from the start of its first call and billed before it says
success (`Kept`). A step of a call touches the record of its own id only, so each step is
compared with the calls that share it. The theorem is for any finite set of calls and
any number of mishaps.

**EventCenterProofs.** The invariant is about the rows (`Table`) and about what
each handler has yet to do (`Plan`). That chains die alone is not inductive: an event
is created from a depth that was read earlier, so the pending `create` must still
agree with its parent, which holds because depth never changes and a purged parent
never comes back. That derived work comes after the verdict needs the order inside a
handler: either the parent of a pending `look` has its verdict, or the verdict is the
call before it in the same plan. That verdicts stay, and that a pending verdict is
never for a row too deep to be worked on, is what makes the interleavings harmless.
`QueueKept` shows that each step is one of `WorkQueue` or a stutter: a late verdict on
a settled event is the stutter, one on an event that was given back settles it, a
reclaim and a restart are `Return`.

**AgentSessionsProofs.** `ConsentedOnly` needs nothing of the clients: an answer is
open or given only while its call waits for it, a "yes" or a call about to be performed
is a call with consent, and what is allowed for good was allowed by its user (`Trusted`);
that this is inductive needs to know whose a run is that is held back for its request
(`Held`) or unborn (`Family`), because both are started by somebody else. `WaitingIsVisible`
and `ResumableTranscript` speak of the run that serves a session, and there may be two
when a client continues a session that is still served (see above): the properties except
the sessions that were, and so does the invariant, session by session. Of each of the
others a run that is under way is the one its session has registered (`Served`), a request
is alone with it (`Single`), and when it has open calls its run is in the middle of a
batch (`Owned`). Nothing is assumed of the clients.

**ConfigReloadProofs.** *Reload.* `SaveKeepsEdits` needs `Current`: as long as there was no
write since the reloads that are on have read the file (`Calm`), what they have read
is the file, and what is past its assignment is in use. A reload that was alone
when it read clears `disturbed` for the others too, which is why `Calm` mentions it.

*Keys.* `KeysAreKept` holds between operations. In between, `Underway` says what an
operation goes by (the entry it works on is still there, what it has put into `.env` is
in the environment, what it has put into the YAML is the old list with its change),
`InStep` which of file, environment, memory and pool have been brought in line, and
`KeysHeld` that a key is in the file unless the operation under way takes it out, in
memory always. Entries have ids of their own (`Unique`), outside of the disagreement
named above (`twin`: an id added a second time), from which point on nothing is claimed.

*Files.* `InCourse` is what is always so: an operation under way is as acceptable as when
it began, a file that was loaded is there or away for a moment, and a reload that nothing
overtook has read what is there. Four invariants stand on it. `Gated` (for `GateHolds`):
the gate knows of every edit that memory does not have, and the file being replaced holds
none. `Agrees`: memory is what the file makes under the database, or will be when the
operation that is under way has ended - the text it is writing is the file with the change
it is going to make in memory; no row of the database is for a provider that is not
there. `Limits` (for `LimitsSurvive`): a quota set in the console is in the file, or else
in the database, and in memory, or will be after the operation; it lasts through mishaps
other than a lost file and a rename broken off (`Exempt`). `Deleted` (for
`DeletedNeverReturns`): what was deleted is in neither file, nor in a text that is being
written; memory knows of every file there is (`Complete`). `MemoryFollowsFiles` is the three
together. `Sound` (for `DeploymentsHaveProviders`): before any mishap and any edit by hand,
deployments are on providers that are there, those that a merge put elsewhere (`astray`)
excepted, in memory and, when the gateway is down, in the files, which are both there or
both not. Together they are an invariant for any set of
provider ids, any template and any amount of work. Assumed is that names are told apart (a
missing file from a file, no key from a key), that the committed templates hold quotas
written by hand and deploy models on their own providers (`TemplateAssumption`), and that
there is a credential at first (`KeysAssumption`).

**WorkersProofs.** *Delegation.* Two arguments meet. That work is covered is arithmetic: for
a single task or an event, the lease that is left and the age of the run add up to
`LeaseTime`, because no tick passes between taking the lease and the start, and
both change by one in a tick; with `Timeout < LeaseTime` (`LeaseAssumption`) the
lease is positive as long as the run may last. That reports are true needs to know
when a program may be there at all (`phase` against `proc`), and how far `ran` is ahead
of `booked`: by one between the start and the booking, by nothing else.

*Tray.* `OneGateway` speaks of children that are up, as long as the tray has
not quit; to be inductive it has to speak of the thread that is about to make one.
Only the holder of the lock makes a child, and does so after it has read, cleared and
waited for what was there. `Lone` says what each place of `start()` knows: whoever
stands in it holds the lock, what is up is the process the tray knows, the one that
was read is still that one or nothing is up, and after the clearing nothing is up.
`Away` says that a thread leaves `start()` for a place outside of it, and that the
gateway's heartbeat never serves the burner's requests, which stop a child without the
lock. The theorem holds for any number of restart threads and processes; assumed is only
that the name for "no child, no thread" is not the name of a thread (`ThreadsAssumption`).

*Burner.* `BudgetIsKept` is about sums over windows, which `BurnerLedger` writes as a
recursive function over the ages. That such a function exists, and that it unfolds, is
proved first, by an induction over the ages that rests on the least number of a set; it
gives what a tick, a booking and an empty age do to a sum (`SumNext`, `BookedSums`,
`LaterSums`, `FlatSums`). The fixed windows need the remainders of the clock
(`NextRemainder`, `NestedRemainder`): after a tick a window is one age longer or begins
anew. `BudgetInv` says that what is used and what the requests under way may still cost
fit both windows as long as the budget is switched on and nobody has disturbed the run, and what that takes: amounts
that are not below zero and the price that was read at the start.
`ResumesWhenThereIsRoom` needs no invariant: for any such bookings the time the code
computes is the first at which both windows have room. The theorem is for windows of
any length, the short one not the longer, any settings and any amounts of a
reconciliation that are numbers (`BudgetAssumption`), and any number of requests.

**Model-checked only.** Liveness (`RestsEnd`, `RequestEnds`, `RowsClose`,
`EventuallySettled`, `RunsEnd`, `EditsTakeEffect`, `WindowsReopen`, `WorkGoesOn`,
`ConsoleAndTrayAgree`), which the prover cannot do under fairness.

## 5. Plan

Done: all of the modules of section 2. What would add most next, in this order:

1. Composition of pool and scheduler: the offers of `Scheduler` restricted to what
   `CredentialPool` can offer, to show which of its nondeterminism is real.
2. `EventCenter` with a second group and an open dedupe window in one run, and the
   reviews lost between two transactions.
3. Reading of program output and of provider errors as classification tables
   (`services/agent/cli/base.py`, `retry/classifier.py`), checked for totality.

## 6. Not modelled

* *Texts, formats and parsing*: validation of parameters and settings, YAML syntax, images'
  bytes, command lines' quoting, the ChatGPT import, notifications, logging. They have
  no state that outlives a call.
* *Classification of provider texts*: which body is a quota error and which a frequency
  one. `Scheduler` and `CredentialPool` take every class at any time.
* *Numbers*: prices and token accounting, measured latencies and success rates (any
  order in `Scheduler`; fixed scores in `Routing`), the draw of the weighted strategy,
  backoff durations and exact timeouts, which are represented by the order of events
  they allow.
* *Model service, statistics, model lists, agents' and events' thin handlers, web
  console*: read-only views or wiring of what is modelled.
* *What tools do to files, compaction of long transcripts, event subscriptions* of
  agents: data the loop's control does not depend on.
* *Desktop scripts other than the tray*: they keep no state. Of the tray, its poll for
  approvals is left out.
* *Failures of the SQLite file* are considered in `ConfigReload`, `ConsoleConfig`,
  `RequestAudit` and, as exceptions, `AgentSessions` only.

Each component is listed with its status and the reason under `components` in
`PROJECT.json`.
