# ShopSage AI: a formal model

TLA+ modules for the parts of ShopSage AI whose correctness depends on who runs when: the background workers,
the alerts, the webhooks, the event bus, the rate limiter and the price cache, the authenticated API over its tables of
tenants, keys and feature flags, and the stores beside them. Each module is translated from the Python source; TLC
checks it on a small instance, and TLAPS proves every safety property that holds there for every value of the constants.

Paths below are relative to the root of the repository. `shopsage/` is `src/shopsage/` in PROJECT.json.

1. [How the program runs](#1-how-the-program-runs)
2. [Inventory](#2-inventory)
3. [The modules](#3-the-modules)
4. [Runs, bounds and what they show](#4-runs-bounds-and-what-they-show)
5. [Fairness](#5-fairness)
6. [Proofs](#6-proofs)
7. [Where the code does something else than its text says](#7-where-the-code-does-something-else-than-its-text-says)
8. [What is only model-checked, and what is not modelled](#8-what-is-only-model-checked-and-what-is-not-modelled)
9. [Plan](#9-plan)

To run: `tlc -config JobQueueOneWorker.cfg MCJobQueue` (any other pair of section 4 likewise), `tlapm JobQueue_proofs.tla`.

## 1. How the program runs

These facts decide what is one step of a model and what may come between two steps.

* gunicorn starts at least two worker **processes** and imports the application before it forks them
  (`gunicorn.conf.py`: `preload_app = True`, `uvicorn.workers.UvicornWorker`). What is built at import, like the rate
  limiter, is a copy in each process at one address; what is started in the `lifespan` handler, like the price
  checker, exists once per process.
* A process runs one asyncio **loop**. The endpoints are `async def` and call the stores synchronously, so a store
  operation is never interrupted by another coroutine of its process, only by other processes; a coroutine gives up
  the loop at `await` and nowhere else.
* The stores share one SQLite file. SQLite makes each statement atomic (and each transaction, where the code opens one
  around several statements); most operations are several transactions, with Python in between.
* There are **threads** as well: the job queue's workers and the scheduler are daemon threads, and the agent's tools
  run `fetch_prices` in threads of their own (`tool/price_comparison.py`). A thread may be interrupted between any two
  operations on a shared object.
* Webhooks are delivered by **Celery** tasks in other processes; rate limits and the cache may be in **Redis**, which
  executes each call, and each MULTI block, atomically, but may raise after having executed it.
* The job queue and the scheduler are complete and tested, and the `/jobs` endpoints enqueue into the queue, but their
  start is commented out in `app.py:173-176` in favour of Celery. They are modelled as the library they are.

## 2. Inventory

The components that are modelled. "Hard" is what a unit test hardly reaches; PROJECT.json lists each hazard at its line.

| component | state | operations | interacts with | hard | correct when |
|---|---|---|---|---|---|
| Job queue `workers/job_queue.py` | table `jobs`; handlers; worker threads | enqueue, process_next, cancel_job, purge_completed, register_handler, start/stop_worker | scheduler enqueues; `/jobs` endpoints enqueue, read, cancel | SELECT and UPDATE are two statements; results are written from a stale copy of the row; every failure is swallowed | attempts are bounded, results final, nothing is failed early, a pending job waits for ever only for jobs of higher priority |
| Task scheduler `workers/scheduler.py` | dict of tasks with `last_run`; one thread | register, unregister, enable, disable, start, stop, the loop | enqueues into the job queue | the dict changes under the thread's iteration; one `now` per pass; an exception ends a pass | the interval passes between two enqueues; every enabled task comes again |
| Rate limiter `auth/redis_rate_limiter.py` | a sorted set per key in Redis, or a list per key and process | is_allowed, get_usage, reset | middleware of `app.py` | add, count and remove in two calls; clocks read before; calls that fail after their effect | at most the limit in any window, but for requests that share a member; nobody is turned away below it |
| Price alerts `monetise/deal_alerts.py`, `workers/price_checker.py`, `tool/deal_alert_tool.py` | table `price_watches`; a cycle's snapshot, batches, attempts | create, deactivate, update_price; the checker's cycle | price cache and scrapers, e-mail | rows read once and used after awaits; attempts repeat a whole group | every watch of a cycle is looked at; no duplicate alert in an attempt; alerts keep coming |
| Webhooks `webhooks/`, `workers/tasks.py` | tables of endpoints and deliveries; a delivery's attempts | register, deactivate, dispatch, deliver, log; the Celery task | receivers, Celery | three attempts inside a task that is itself retried; concurrent counters; crashes | nothing acknowledged is sent again; counters agree with the answers; a dispatch ends |
| Event bus `events/event_bus.py` | handler lists, history | subscribe, unsubscribe, publish, emit_sync | handlers write notifications and analytics | handlers suspend, raise and change the lists that are being dispatched | every subscriber is called once; every event the loop dispatches is dispatched to the end |
| Price cache `cache/redis_backend.py`, `tool/price_scraper.py` | two dicts, or Redis | get, set, clear; fetch_prices | tools, price checker, endpoints | scrapes overlap; threads without a lock; a failing `set` is silent | answers are fresh; a repeated query does not go to the stores; the size is kept |
| Tenants and API keys `auth/tenant_store.py`, `key_manager.py`, `api_key.py` | tables `tenants`, `api_keys` | create, update, deactivate tenants; create, rotate, revoke, validate keys | the API's endpoints | rotation is two transactions; `validate_key` switches off a key by id after a SELECT | a rotated key works through its grace period |
| SaaS API `router/api_router.py`, `security/audit_log.py` | the request under way in each process; table `audit_log` | the endpoints | both tables, feature flags | authentication, work and audit entry are separate transactions | a deactivated tenant is out soon; changes are audited |
| Feature flags `auth/feature_flags.py` | overrides, a cache of them in each process | set_tenant_override, is_enabled, get_tenant_flags | the API | the cache never expires | a process sees its own changes |
| Dynamic configuration `config_dynamic.py` | table of values and overrides, a cache in each process | set, delete, get, load | `/admin/config` | a process refreshes its cache at its own `set` only; a value that does not cast stops the load | only names changed by others are stale |
| Tenant onboarding `onboarding/manager.py` | registrations, checklist, events | register, activate, suspend, change_plan, complete_step | endpoints | the stamp is drawn before the lock, read and write are apart, events are listed by stamp | the rows written last tell the state, and only overlapping methods' rows are shown before them |
| Retention `retention/policy_manager.py` | policies, global and of tenants; events | set, delete, get, enforce, enforce_all, report | endpoints | get_policy is two SELECTs | what is recorded is what a policy said; the report agrees |
| Conversation history `history/conversation_store.py`, `analytics/search_tracker.py` | messages, queries | the tail of `POST /chat`, deletion, pages, statistics | the agent | an exchange is two transactions, and a third for the query | an exchange is whole or known to be cut |
| User profiles `memory/user_profile.py`, `tool/preference_tool.py` | one row per user | merge_preferences, delete | the agent's tool | read-modify-write | what was saved is lost to overlapping merges only |
| Collections `collections/store.py` | two tables | create, add, remove, delete, list | endpoints | stamp before the transaction; no foreign keys | items belong to collections; stamps are of the last change |
| Notifications `notifications/`, `events/handlers.py` | notifications, audit entries | five event handlers; mark, purge, count | event bus | two writes per event | nothing unread is lost; what is announced is recorded |
| Abusive IP blocker `security/abusive_ip_blocker.py` | counter and block in Redis | the middleware | answers 401, 403, 429 | `incr` and `expire` are two calls | an address is blocked for recent strikes |
| Plugins `plugins/manager.py` | registry, run | register, unregister, enable, disable, execute | endpoints | a run iterates over the live list | the tables agree; a run misses nothing |
| Billing `billing/` | usage by day | record_usage, get_bill, predict | `/admin/billing` | clock, plan and usage are read apart, twice for a bill with its prediction | a bill is that of a plan and a usage the tenant had; projections are not below what they project |
| In-process TTL cache `cache/ttl_cache.py`, limiter `auth/rate_limiter.py` | a dict, lists, behind locks | all methods; only the tests use them | - | the clock is read before the lock | LRU; the limit, up to late clocks |

Not modelled: rate-limit analytics, search and usage analytics other than the query of a chat, export, monitoring, affiliate links, input filters,
response headers, routing, API versioning, the agent with its chains and tools, embeddings, the front end, migrations, deployment. They
append rows, format text, configure, or call external services, and keep no state that a step of another could make wrong.

How the components meet: the **scheduler** enqueues jobs, the **queue** runs them. The **price checker** reads the
watches, asks **fetch_prices**, which asks the **cache** and then the stores, writes the watches and sends mail.
The **event bus** calls handlers that write notifications; in the application nothing publishes on it yet, the tests do.
A **Celery task** runs the webhook dispatcher. The **rate limiter** and the **IP blocker** stand before every request; `verify_api_key` stands
before those of the SaaS API, which changes **tenants**, **keys** and **flags** and writes the **audit log**. The tail of a chat writes history and queries. Each module takes its
neighbours as its environment and says in a comment what it assumes of them.

## 3. The modules

Every component has one module with its state, one action per operation or step, its properties, and its seeded bugs
(operators with a suffix, like `RetriesLeft_Inclusive`; each is a plausible mistake in the code that a property must
reject). `MC*` modules give values to constants and say what is symmetric. Modules `*_proofs` hold the theorems.

### JobQueue (`workers/job_queue.py`)

* **State.** `jobs` is the table: one row per uuid, `"unused"` and `"purged"` standing for "no row". `arrivals` is
  the logical clock of `created_at`. `handlers` and `running` belong to a `JobQueue` object (an `Instance`), `pc` and `held` to a worker
  thread; `held` is its local `job = dict(row)`. `attempts` is a history variable.
* **Actions.** `process_next` is cut where another process can write the table: `Select` (the SELECT), `Claim` (the UPDATE to
  `running`, by id only), then `HandlerReturns`, `HandlerRaises` or `NoHandler` with the final UPDATE, computed from the copy.
  `ClaimFails` and the fault "db" are the `except sqlite3.Error` branches, which swallow. `Enqueue`, `CancelJob`, `PurgeCompleted`,
  `RegisterHandler`, `StartWorker`, `StopWorker`, `LoopExits` are the other methods; `Crash` is the end of the process,
  which takes its daemon threads along. `BecomeDue` and `Age` are the passage of time for `scheduled_at` and `completed_at`.
* **Abstracted.** Payloads and error texts; clock values (a row is due or not; a completion is recent or older than the
  purge horizon); the counters of `get_stats`; reads that change nothing.

### JobLifecycle and JobQueueLifecycle

`JobLifecycle` is what a submitter may rely on, without rows or threads: a job is pending, taken, running and then completed, failed or
again pending, is started at most `max_retries` times, and may be withdrawn until it is taken. `JobQueueLifecycle` maps the
queue to it: a job is *taken* between its worker's SELECT and UPDATE, *running* while a worker is at it, and *lost* when its
row says running and nobody is. With one worker thread the queue implements it, faults included (`ImplementsLifecycle`).

### JobStream

JobQueue with one action more, `NewId`: the place of a purged row may stand for the next uuid, so that callers submit jobs without end in a finite instance, of two
priorities. `PendingJobsFinish` says of `ORDER BY priority DESC, created_at ASC` what is true of it: a job that waits for ever is overtaken over and over again by jobs of
higher priority (`Overtakes`), which in the code can happen and in the model does. The run begins with all handlers registered (`StreamInit`).

### TaskScheduler (`workers/scheduler.py`)

* **State.** `order` is the key order of the dict `_tasks`, `age[n]` the time since `last_run`, `since[t]` the time since the
  thread read `now`; ages instead of clock values keep the state space finite without a bound on time.
* **Actions.** A pass is `BeginPass` (reads `now` and the size of the dict), `Look` (enabled? due?), `EnqueueTask` or `EnqueueRaises`,
  and `EndPass`, which is also the `RuntimeError` of a dict that changed size. `Register`, `Unregister`, `SetEnabled`, `Start`,
  `Stop` come in between; a task that is registered again is a new object (`mine` becomes false).

### RateLimiter (`auth/redis_rate_limiter.py`)

* **State.** One API key: the sorted set in Redis with its expiry, the list of each process, where each request is, and the
  history `admitted` of what was allowed. Ages again instead of clock values. A member of the sorted set is a clock value and the `id(self)` of the process' limiter
  (`IdOf`, any map; the run gives all processes one id, which is what they have when the application is preloaded). `ties` is the history of requests whose member was there already, or was about to be removed.
* **Actions.** `CheckLocal` is the whole in-memory path. With Redis, `ReadClock`, then `Pipeline` (prune, count, add, expire: one MULTI
  block), then `Reject` (the `zrem` of a request over the limit). `FailOpen` is a call that raises, before or after its
  effect; the request is allowed. `GetUsage`, `Reset`, `Crash` are the rest.

### PriceAlerts (`monetise/deal_alerts.py`, `workers/price_checker.py`, `tool/deal_alert_tool.py`)

* **State.** `row` is the table, `market` what the stores ask (the environment). For each process: the worker's phase, the snapshot its
  cycle began with, the queries still to do, and for each task of the current batch where it is, its failed attempts, its offer and
  the watches it has left. `told`, `updated`, `skipped` are histories.
* **Actions.** `BeginCycle`, `NextBatch`, `EndCycle`; in a batch, interleaved at awaits, `Fetch`, then for each watch `ReadRow` and
  `WriteRow` (the two statements of `update_price`) and `Notify`; `Raises` repeats the group or gives it up.
  `CreateWatch` and `DeactivateWatch` are the tools and endpoints, in any process. An offer stands for the price, store and link that
  were found together.

### Webhooks (`webhooks/webhook_store.py`, `webhooks/dispatcher.py`, `workers/tasks.py`)

* **State.** The endpoints with their counters; each dispatch (a Celery task) with its retries, the subscribers it read, and
  for each of them the attempt it is at. `acked`, `refused`, `missed` are histories.
* **Actions.** `Submit`, `Begin` (get_subscribers), then per endpoint `Answered`, `AttemptFails`, `BackoffOver`, and `End`. An attempt and its log entry are one step,
  there being no await between them. `StoreUnavailable` is the only exception that reaches the task: everything else
  is caught below. `Register`, `Deactivate` and `Crash` may come anywhere.

### EventBus (`events/event_bus.py`)

* **State.** The handler lists of each type and of `"*"`; every event sent, with the handlers it still has to call; which
  coroutine has the loop (`turn`); the history; and what each handler has heard.
* **Subscriptions** are unconditional, as in the code: a handler subscribed twice is called twice. `MaxSubs` bounds how many there are at a time.
* **Actions.** `Publish` begins at once, `Emit` leaves a task that `TakeUp` begins later, `EmitNoLoop` iterates over the live list in the calling thread.
  `Call` is one handler: it may raise, unsubscribe itself, or suspend its coroutine, after which others run until `Resume`. `Finish` records the event.

### PriceCache (`cache/redis_backend.py`, `tool/price_scraper.py`)

* **State.** The two dicts `local` (in insertion order) and `expiry`, the clock, and each running `fetch_prices`.
* **Actions.** Under mode "loop" the steps of `get` and `set` are not interrupted (`Inside`); under "threads" they interleave at each operation on a
  dict, and a deletion of a missing key raises; under "redis" `set` stores nothing, because `json.dumps` fails on the list of
  `StoreResult` objects. `Clear` and `ClearExpiry` are the two halves of `clear`.

### AccessKeys, FeatureFlags, TenantApi (`auth/`, `router/api_router.py`, `security/audit_log.py`)

* **AccessKeys** has the operations on the tables `tenants` and `api_keys`, and the key manager as a system of its own (`KeySpec`): time passes,
  keys are created, rotated and revoked, and validations are a SELECT (`ValidateRead`) and, later, an UPDATE by id (`ValidateWrite`).
  `promised` is the history of grace periods.
* **FeatureFlags** has one flag gated by plan, the overrides and the cache of each process, as operators on these variables.
* **TenantApi** composes both. A request of a process is `Authenticate` (the row as read), `CountUse`, the endpoint (`PostTenant`, `PatchPlan`, `DeleteTenant`, `PostKey`,
  `RotateKey` and `RotateInsert`, `DeleteKey`, `PutOverride`, `GetFeatures`, `PostChat`, `ReadOrRefuse`), and `Record`, the audit entry. Each is a
  transaction and other processes come between. `Fail` is an error, or the end of the process, at any of these points.

### The stores

| module | state | actions | abstracted |
|---|---|---|---|
| DynamicConfig | global rows, overrides, a cache per process (`Down`: a load raised at start); `behind`, the names changed since the last load | `SetGlobal`, `SetTenant`, `Delete`, `Restart`; each with its failures and its reload | values are well formed or `Bad` (do not cast) |
| Onboarding | the clock, registration, completed steps, log with stamps; `op`, the method each process is in | `Begin` (the stamp), `Select`, `Write` (`Insert`, `Activate`, `ChangePlan`, `Suspend` or `CompleteStep`, with `Log`); `GetEvents` lists by stamps | texts |
| Retention | policies, a counter of events; `op`; `seen`, the decisions in force since an enforcement began | `SetPolicy`, `DeletePolicy`, `Enforce`, `ReadOwn`, `ReadGlobal`, `RecordEvent` | retention days, which select nothing |
| Conversations | messages, queries; where each chat is | `Chat`, `SaveUser`, `SaveAssistant`, `Track`, `Crash`, `DeleteSession` | contents |
| Profiles | one user's row; what each merge is about to write; `kept` | `ReadAndMerge`, `UpsertProfile`, `FailMerge`, `DeleteProfile` | one list, one scalar that the UPDATE coalesces, and `notes`, which it does not |
| Collections | both tables; each change stamped but not committed | `Stamp`, `CreateCollection`, `AddItem`, `RemoveItem`, `DeleteCollection`, `Fail` | names, product data |
| Notifications | rows, audit entries, the handler in each process | the five handlers, `RecordAudit`, `Create`, `Fail`, `MarkRead`, `MarkAllRead`, `PurgeOld`; pages are `Page` | texts |
| IpBlocker | counter, block, requests, clock | `Dispatch`, `RecordStrike`, `Expire`, `Judge`, `Fail` | one address |
| Plugins | registry (three structures), one run | `Register`, `Unregister`, `Enable`, `Disable`, `Begin`, `ExecuteNext`, `End` | what plugins compute |
| Billing | the date, plan, usage by day; an endpoint's reads | `NewDay`, `RecordUsage`, `ChangePlan`, `GetBill`, `ReadPlan`, `ReadUsage`, `Predict` (which reads the clock again); money in cents, `Rounded` | floats, but for a half that may round either way |
| TTLCache | entries, oldest use first | `Get`, `MakeEntry`, `StoreEntry`, `Delete`, `InvalidateNamespace`, `Clear` | statistics |
| WindowLimiter | a bucket, calls under way | `ReadClock`, `IsAllowed`, `GetUsage`, `Reset` | one key and tier |

**Stores** puts these, the key manager, the API and PriceCache together as a *sum*: they share no state, so the initial state says which part is `live`, and only it
takes steps. Each part is an `INSTANCE` whose variables are those of the same name, so several parts use one variable, one at a time; those that the live part does
not have are blank. The reachable states are those of the parts side by side, each
as if it were checked alone, and a property `P` of a part is `live = "part" => Part!P`. **MCStores** is its small instance.

## 4. Runs, bounds and what they show

| run | module, cfg | distinct states | question | answer |
|---|---|---|---|---|
| jq_one_worker | MCJobQueue, JobQueueOneWorker | 97 344 | What does one worker guarantee under crashes, restarts, failing statements and cancellations? | Attempts stay within `max_retries`, results are final, no job is failed early; the queue implements JobLifecycle |
| jq_many_workers | JobStream, JobQueueManyWorkers | 607 534 | What is left when two processes run an endless stream of jobs of two priorities from stale copies? | `retry_count` stays below `max_retries`; no running row is without a worker; a pending job ends, or is overtaken for ever by higher priorities |
| jq_cancel | MCJobQueue, JobQueueCancel | counterexample | Does a cancelled job stay cancelled? | No, see section 7 |
| sched | MCTaskScheduler, Scheduler | 163 422 | Are tasks enqueued at their interval, and again and again? | Yes, however tasks and passes are disturbed |
| rl | MCRateLimiter, RateLimiter | 615 882 | Is the limit kept by processes that share an id, and is it the only reason to block? | The first up to one request for each tie in the window; yes |
| pa | MCPriceAlerts, PriceAlerts | 500 274 | Is every watch looked at, announced once per attempt, and again while the deal lasts? | Yes |
| pa_link | MCPriceAlerts, PriceAlertsLink | counterexample | Does the link of an alert belong to its offer? | No |
| wh | MCWebhooks, Webhooks | 392 124 | Is an acknowledged event sent again? Do counters agree with answers? Does every dispatch end? | Never; yes, until a log entry is lost; yes |
| eb | MCEventBus, EventBus | 281 237 | Is every subscriber called once, does every event end? | Yes for events the loop dispatches; a thread without a loop skips some, or goes on for ever |
| eb_order | MCEventBus, EventBusOrder | counterexample | Are events of a type handled in order? | No |
| cache_redis | MCPriceCache, PriceCacheRedis | counterexample | Is a repeated query cached with Redis? | No |
| stores | MCStores, Stores | 1 232 477 | What does each of the fifteen parts promise, whatever its processes, threads and failures do? | The properties of the next table |

| part of stores | properties | say |
|---|---|---|
| PriceCache | `AnswersAreFresh`, `RepeatsAreCachedInLoop`, `CacheIsTidy` | answers are at most TTL and a scrape old in every mode; in one loop repeats are answered from the cache, and its two dicts agree and keep their size |
| AccessKeys | `GraceIsKept` | a key rotated while in force works through its grace period, unless revoked, or doomed by a validation that had found it expired |
| TenantApi | `AccessEndsSoon`, `ChangesAreAudited`, `OwnChangesAreSeen` | a deactivated tenant gets at most one more request served in each other process; each change has an entry unless its request failed between; a process answers with the overrides it set |
| DynamicConfig | `ConfigIsCurrent` | only names another process changed since the last load may be stale |
| Onboarding | `LogTellsTheState` | the events written last tell status and plan, and `get_events` shows before them only events of methods they overlapped; one registration; active means verified |
| Retention | `EnforcementsFollowPolicies` | what is recorded is a decision in force since the enforcement began; "uncovered" in the report means skipped |
| Conversations | `ExchangesAreWhole` | question before answer; halves only from failed, cut off or deleted saves |
| Profiles | `PreferencesAreKept` | a preference, a scalar with its value, is lost only to a deletion or to a merge that had read the profile before |
| Collections | `CollectionsAreWhole` | items without a collection are those added to one that was gone; `updated_at` is no older than the newest item, but for crossing changes |
| TTLCache | `HoldsTheLastUsed` | eviction takes the least recently used |
| IpBlocker | `BlockIsDeserved` | threshold strikes within a window, unless the counter lost its expiry or got it late |
| WindowLimiter | `WindowHolds` | the limit, and one for each other thread with an old clock reading |
| Plugins | `RegistryIsWhole` | three structures agree; a run misses a plugin only by an unregister in it |
| Notifications | `NothingUnreadIsLost` | purging and failing handlers lose nothing that was written and is unread; it is counted, and shown to who asks for as many as are counted; a welcome or alert anybody sees is in the audit log (not the converse: one that failed after its entry is lost) |
| Billing | `BillsAddUp` | each bill of an answer is one of the plans and usages its month had meanwhile; a projection is at most a cent below the bill it is made from and, for the same month and plan, below the amount due |

Only `stores` turns off the deadlock check: the API really may stop (when its last active tenant has been deactivated nobody is let in), and
the bounds on time and on histories stop other parts. In the other runs the environment can always do something.

`Sym` of MCStores swaps `a` with `b` and `x` with `y`: processes, threads or requests, and keys, names, items or ids, which no module tells apart.
Where a part is not symmetric in them (a process set `{a}`, plugin types) the swapped states are not reachable, or the values are chosen alike, and nothing is merged wrongly.
The run has no liveness property.

**Bounds, and why they are enough.**

* *Job queue.* Two jobs: every property is about one job, and a second is needed for order, priority and purging; in jq_many_workers a purged place is used again, so there two are an endless stream, in which the one of priority 0 does starve. One thread, or two, which is what two writers of one
  row need. `max_retries` is 0 and 3 with one worker (the boundary, and more than two attempts), 2 with two. `MaxAttempts` bounds only the
  history counter and is never reached: no job is executed 4 times in the first run, or 6 times in the second.
* *Scheduler.* Two tasks with intervals 3 and 4 and a pass of at most 1 tick: an interval longer than a pass, unequal so
  that tasks are due together and apart. One loop thread.
* *Rate limiter.* Two processes, limits 1 and 2 in two tiers (a tier may change between requests), a window of 3 ticks with a request taking up
  to 1: old, young and boundary stamps occur together, and both processes draw one member. Each process asks once in a tick, which is the resolution of the clock.
* *Price alerts.* One process, two watches, two queries (so two in one group, or one in each), batches of 1, two attempts, two prices on both sides of each
  target: enough for a group that fails between its first and second watch and for a second batch. The facts about two processes are in section 7.
* *Webhooks.* Two events, two endpoints, one of which gets both: concurrent counters and partial failure. Two attempts in a delivery and two runs of a task: a first, a repeated, a last one.
* *Event bus.* Two events of one type, two handlers and the wildcard: one asynchronous and raising, one leaving while called, and two subscriptions at a time, which may be the same one twice. A history of 1
  is full after the first event.
* *Price cache.* Two callers, two queries, room for one entry, TTL 2, scrapes of at most 1 tick, 4 ticks: an entry is stored, answered, evicted or
  expired, and stored again, with a scrape across its end.
* *Keys.* One tenant, two keys, two validations under way, lifetimes and grace of 1 in 3 ticks: a key expires, is found expired, is rotated, and
  is switched off late. *API:* an enterprise tenant and another, two processes, three requests, which is a request let in, one that
  deactivates, and one after it.
* *Configuration:* two processes, two names, two values and one that does not cast. *Onboarding:* two processes, one tenant, two steps, four readings of the clock: a stamp drawn first may be written last.
  *Retention:* one enforcing process (policies are changed by others at any time), two built-in categories and a custom one.
* *Conversations:* two processes, two sessions, three turns. *Profiles:* four merges in two processes of two brands, budgets and notes, alone, together or none. *Collections:* two of each, two ticks.
* *TTL cache:* three keys in two namespaces, room for two. *IP blocker:* two requests, threshold and window 2, five ticks: a counter lives, expires and begins again. *Limiter:*
  two threads, limit and window 2, six grants. *Plugins:* two of one type and one of another.
* *Notifications:* two ids, one tenant and the system, purge after a day in two. *Billing:* a month of two days and one of one day, two records, prices with and without overage, `Thousand` being 2: an overage may be half a cent, the month may change between the two bills.

`MaxPass`, `MaxLag`, `MaxScrape` are assumptions about the environment (how long an enqueue, a Redis call, a scrape may block) and appear in
the properties; `MaxAttempts` of JobQueue, `MaxTime`, `MaxEvents`, `MaxSubs`, `MaxRequests`, `MaxTurns`, `MaxMerges`, `MaxRecords`,
`MaxStrikes`, `MaxGranted`, `MaxUses` are bounds of the search only.

## 5. Fairness

Only five specifications have fairness, each the least that its liveness property needs.

* **Job queue** (`Fairness`): a started thread is scheduled (weak fairness of each thread's step, which includes that its handler returns or
  raises) and a scheduled time is reached. Nothing is assumed of callers: they may cancel, purge and enqueue as they
  like, for ever or never again. `PendingJobsFinish` (of JobStream) is checked without faults; with a crash it is false (section 7).
* **Scheduler**: time passes and a started thread runs. `TasksRecur` holds on condition that from some time on nobody registers or removes tasks and the
  database answers; without the first a task that is registered again and again changes the dict under every pass.
* **Price alerts**: the server starts its worker, and the event loop goes on with it. `AlertsKeepComing` is on condition
  that the worker is not stopped, the deal lasts and calls stop raising.
* **Webhooks**: Celery runs the tasks it has and a task's loop its deliveries. `DispatchEnds` counts a lost task as ended: nobody waits for it.
* **Event bus**: the loop runs each coroutine that can run (strong fairness of each event's steps, because other coroutines take the loop in between and it serves
  ready callbacks first in, first out), and a suspended handler comes back; one that never returns would keep its event for ever. Nothing is promised for a thread
  without a loop: it iterates over the live list, and a handler that subscribes whenever it is called keeps it busy for ever.

Rate limiter, price cache and the stores have no liveness properties, so they have no fairness. (That a retried write or a stale cache is
repaired at some time would be such properties; the code retries none, and repairs a cache at the next `set` of its own process only.)

## 6. Proofs

All theorems are of the form `Spec => ...` for the specification that TLC checks, without fairness, for every value of the constants that the
named assumptions allow. The assumptions only say what kind of value a constant is (`Limit` maps tiers to naturals, `None` is no row).
Those of the modules with a run of their own, and of PriceCache, are ASSUMEs, which TLC evaluates in the runs; those of the parts of `stores` are the
hypothesis of the theorem (`...Parameters`, `...Differ`). Only two hypotheses say more, one worker thread (what `start_worker` starts in a process, and no second process) and one loop thread; and `OwnIdsNeverTie` says what is
gained by ids of the limiters' own, which the shipped configuration does not give them.
**Every invariant and every action property that a passing run checks has its theorem**; the five liveness properties do not (section 8).

| theorem | states | hypotheses beyond the module's ASSUMEs |
|---|---|---|
| `JobQueue_proofs!TypeCorrect` | `TypeOK` | none |
| `JobQueue_proofs!RetryBudgetHolds` | `RetryBudget`: a row put back has attempts left | none: any threads, processes, faults |
| `JobQueue_proofs!RunningAreHeld` | `RunningIsHeld`: without faults, who says running is run | none: any threads |
| `JobQueue_proofs!AttemptsAreBounded` | `AttemptsBounded`: at most `max_retries` executions | `OneWorker` |
| `JobQueue_proofs!FinishedAreFinal` | `FinishedIsFinal` | `OneWorker` |
| `JobQueue_proofs!NoneFailsEarly` | `NoEarlyFailure`: a job with a handler fails with its attempts spent | `OneWorker` |
| `JobQueue_proofs!QueueImplementsLifecycle` | `ImplementsLifecycle`: the refinement of JobLifecycle | `OneWorker`; any faults |
| `TaskScheduler_proofs!IntervalIsRespected` | `IntervalRespected` | `OneLoop` |
| `RateLimiter_proofs!LimitHolds` | `LimitRespected`: the limit, and one request for each tie in the window | the back ends are memory and Redis; any ids |
| `RateLimiter_proofs!OwnIdsNeverTie` | there are no ties, so the limit itself holds | the ids are distinct and no call raises |
| `RateLimiter_proofs!EntriesAreJustified` | `EntriesJustified`: a rejected request leaves nothing behind | none: shared ids and failing calls too |
| `RateLimiter_proofs!BlocksOnlyWhenFull` | `BlockedOnlyWhenFull` | none, likewise |
| `PriceAlerts_proofs!AlertedOnceAnAttempt` | `OneAlertPerAttempt` | none: any processes |
| `PriceAlerts_proofs!EveryWatchIsChecked` | `EveryWatchChecked` | none: any processes |
| `Webhooks_proofs!AcknowledgedOnce` | `AckedOnce` | none |
| `Webhooks_proofs!CountersAgree` | `CountersMatchAnswers` | none |
| `EventBus_proofs!HandlersAreCalled` | `EveryHandlerCalled` | none |
| `PriceCache_proofs!AnswersStayFresh` | `AnswersAreFresh` | none: loop, threads or Redis |
| `PriceCache_proofs!CacheStaysTidy` | `CacheIsTidy` | none |
| `PriceCache_proofs!RepeatsStayCached` | `RepeatsAreCachedInLoop` | none |

The other theorems are in `Stores_proofs`, about the parts of `Stores`:

| theorem | states | hypotheses |
|---|---|---|
| `GraceKept` | `GraceIsKept` | lifetimes and grace are naturals; `None` is no number and no row |
| `AccessIsEnded`, `ChangesStayAudited`, `OwnChangesStaySeen` | `AccessEndsSoon`, `ChangesAreAudited`, `OwnChangesAreSeen` | finitely many processes, one at least; grace a natural; `None` is no process and no row |
| `ConfigStaysCurrent` | `ConfigIsCurrent` | none |
| `LogStaysTrue` | `LogTellsTheState` | `None` is no registration |
| `EnforcementsFollow` | `EnforcementsFollowPolicies` | `None` is no policy |
| `ExchangesStayWhole` | `ExchangesAreWhole` | finitely many sessions |
| `PreferencesStay` | `PreferencesAreKept` | what is saved are profiles, `None` is none of them |
| `CollectionsStayWhole` | `CollectionsAreWhole` | `None` is no time and no row |
| `CacheHoldsTheLast` | `HoldsTheLastUsed` | the size is positive, lifetimes are naturals |
| `BlocksAreDeserved` | `BlockIsDeserved` | the window is positive, `None` is no time |
| `WindowsHold` | `WindowHolds` | finitely many threads, one at least; limit and window are naturals |
| `RegistryStaysWhole` | `RegistryIsWhole` | every plugin has a type, `None` is no Boolean |
| `NothingUnreadLost` | `NothingUnreadIsLost` | finitely many ids; `None` is no row |
| `BillsStayTrue` | `BillsAddUp` | prices and charges are naturals; finitely many days, from 1; months have lengths; `Thousand` is positive |

Each step lemma treats one action, and `...Next`, `...Step` or the theorem itself joins them. How the arguments go:

**Job queue.** `RetryBudget` alone is not inductive: a worker writes what it computed from a copy, so one must know that the copy
has the `max_retries` of its row. `HeldJobs` says so, also when the row was purged meanwhile; `RetryBudgetInv` is its
conjunction with the types. For the number of executions, `OneWorkerInv` adds `RowsCount` (with one worker
executions are `retry_count`, plus one while running and afterwards) and `CopyIsFresh` (the worker's copy agrees with the
row, but for a cancellation between SELECT and UPDATE). `FinishedAreFinal` uses `CopyIsFresh`: the worker's row is not a finished one.
`NoneFailsEarly` reads the executions off `RowsCount` at the step that writes "failed". `RunningAreHeld` needs no single worker: its invariant
`HeldInv` follows rows rather than copies, and every step that writes "running" is that of a thread that goes on to hold the row.
`QueueImplementsLifecycle` maps each action to an action of JobLifecycle or to a stutter, under `OneWorkerInv`: without `CopyIsFresh` a
worker's final UPDATE could be any change of status.

**Scheduler.** `age`, computed from the stamp, and `gap`, the true time, are at most a pass apart (`ClocksAgree`), because the stamp is the `now` of the pass;
and what a thread is about to enqueue is still due (`StillDue`), although the dict may have changed since it looked.

**Rate limiter.** With Redis, `SetInv` compares counts for every age k within the window: the requests allowed since then and those over the limit whose entry is still to be
removed are no more than the members in the set or about to be removed, and the ties since then (`Tally`; `Removals` says as much of the removals alone). The key does not expire
before its entries leave the window (`KeyOutlives`). Each step changes these counts by at most one, so no member need be traced to its request, and no hypothesis about ids is
needed: a request whose member was there, or is about to be taken away by another's `zrem`, is a tie. The limit then follows from the count that `Pipeline` compares.
`OwnIdsNeverTie` has a small invariant of its own: a process reads a newer clock each time (`Newest`).
Without Redis, `ListInv` says the same of the lists. An error with Redis, or the end of a process without, voids the count, and the property says so.
`BlocksOnlyWhenFull` goes the other way, from entries to requests (`JustifiedInv`): each entry counted is an allowed request or one over the limit, and by counting there are
enough of them (`BlockInv` adds that all these sets are finite, and what a slow request has seen leave the window).

**Price alerts.** `AlertInv` ties a task's place to its history: what was told, updated and skipped is that of attempts already made (`TaskOK`), and each watch of the
snapshot is still to be visited, in hand, updated or skipped (`Cared`). A repeated attempt begins the group again, and `tries` counts it.

**Webhooks.** `AckInv`: what was not delivered yet has no acknowledgement, and a delivery ends with its first. For the counters, acknowledgements are counted
as a set of dispatches (`Acks`), to which a step adds one element or none.

**Event bus.** `BusInv`: for every event and handler, the calls made and the calls to come add up to the subscriptions at its beginning (`Progress`). Handlers that leave
change the lists, not the copy that is being dispatched.

**Price cache.** That the time beside a value is the value's own is what one would like to prove, and it is false for threads: a time may stay from
an earlier value, or come from a later one. `TimesNear` is what survives: no time is further ahead than TTL, and none further from its value than TTL and a
scrape. `CallsKnow` carries it through the steps of a `get` and a `set`. In one loop more is true: `LoopInv` says that at most one call is inside the cache, and for each place it may be at
how the two dicts then differ (`Stands`); outside they agree (`Tidy`), and what is fresh by the history is there (`FreshKept`).

**The sum.** A step of `Stores` is a step of the live part or none of it (`LiveSteps`), and its initial states are those of the part (`LiveStarts`), so
each theorem is one invariant of one part.

* *Keys.* `GraceIsKept` says only that the key is active; `KeyInv` adds why it stays so: until the promise is over its expiry is no earlier, so no
  validation finds it expired, and no validation that did is still to write (`Doomed`).
* *API.* `LateOK`: of a tenant that is off, the requests served since and those still on their way to an endpoint are together fewer than the processes.
  `ChangesLogged`: each change has its entry, or the request that is to write it. `FlagInv`: a cache differs from the table only where another process changed it.
* *Configuration.* A load brings a process up to date, and every change adds its name to what the others are behind in.
* *Onboarding.* `LogOK`: the last row that tells of a status, and the last that tells of a plan, are the tenant's; a registration is the first row and the only one; no step
  is there twice. `StampOK`: every row's stamp is greater than those of the rows there were when it was drawn, so the last row is shown before all of them. `IntentOK` says the same of what is under way.
* *Retention.* `SeenOK`: what an enforcement has read is a decision among those in force since it began, also when the tenant's row came or went between the two SELECTs.
* *Conversations.* Stamps are distinct and below the clock (`Stamps`), a turn belongs to one chat (`Turns`), and a row says how far its exchange has come (`Exchanges`). That pages are in order and complete is
  proved of `Oldest` and `Newest` from counting alone: the ranks of n rows with distinct stamps are 0 to n - 1.
* *Profiles.* A merge under way is about to write what it had read and what is new, field by field; so what it had read of the kept preferences stays, and a scalar it has none of is the row's.
* *Collections.* `NothingAhead`, `IdsDrawn`, `ChangeOK`, `ItemOK`: stamps are not of the future, ids are not reused, and an item whose collection is gone was added beside the deletion.
* *TTL cache.* `Latest`: the keys of the cache are the end of the history of uses. Each operation keeps this by counting how many of what it keeps come before a place.
* *IP blocker.* While no expiry was lost or late the counter's first strike and the setting of its expiry are at one time, and
  it ends within a window of it; so each strike on its way to be judged was counted within one.
* *Limiter.* For each time m, either all requests granted in the window of m are in the bucket and within the limit (`AllHeld`), or m is past and they are no more than the limit
  together with the threads whose reading is from before, which alone can add to them (`Past`).
* *Plugins.* Each list is `Sorted` by the order of registration, and the run's context is a part of the list up to `next`; only a removal moves what is under the index.
* *Notifications.* What is unread is there, and what must be audited is, or the handler at it is about to write it. A page as long as there are rows has all of them (`PageHasAll`).
* *Billing.* What is recorded for a day adds as much to its month and nothing to the others. (The library's induction is out of the provers' reach; that a set of
  numbers has all of them if it has 0 and every next one, `NumbersFollow`, is proved from the least one missing, and stands in for it.) A bill under way knows
  usage and plan to be of those the tenant had (`Requested`). The cost of a usage grows with it (`CostsGrow`), rounding errs by half a cent (`RoundedIs`), and a day is at most the length of its
  month, so what is projected is no less
  than the sum of the parts as shown, which two roundings keep within a cent of the amount due.

## 7. Where the code does something else than its text says

Four runs end in a counterexample (PROJECT.json, "findings"):

1. **A cancelled job runs** (jq_cancel). `cancel_job` returns True between the worker's SELECT and UPDATE (`job_queue.py:177`); the UPDATE does not ask for
   the status again.
2. **The link of an alert** (pa_link). `_send_notification` takes price and store from the offer just found, and the link from the watch
   as read at the start of the cycle (`price_checker.py:205`): the link of an earlier offer, or none.
3. **Order of events** (eb_order). "Events are processed in-order per type" (`event_bus.py:12`), but a publish that waits for a handler is overtaken.
4. **Nothing is cached in Redis** (cache_redis). `json.dumps` fails on `StoreResult` and `set` swallows it (`redis_backend.py:126`).

Others were met while modelling. The models have these behaviours (the constants of a `.cfg` show which are switched on), but no run is spent on them:

* *Job queue.* `stop_worker` waits 5 seconds and then lets the thread go on; a `start_worker` makes a second one, and with two a finished job may change
  again (two workers claim one row). A process that dies in a handler leaves its job running for ever. A stream of jobs of higher priority
  starves one of lower priority (`job_queue.py:164`), which has no aging. Cancelled
  jobs have no `completed_at` and are never purged (`job_queue.py:358`).
* *Scheduler.* `stop` waits 5 seconds for a thread that sleeps 10 (`scheduler.py:134`): a start in that time makes a second loop. After a
  restart all tasks are due at once. A task whose enqueue always raises keeps those after it from being enqueued.
  The task described as "Purge expired entries" clears the whole cache (`scheduler.py:209`).
* *Rate limiter.* "Unique request IDs": under `preload_app` the processes share `id(self)` (`redis_rate_limiter.py:117`), so two requests with one clock reading are one member,
  and the limit is exceeded by one for each such tie, which is what `LimitRespected` allows. A request over the limit counts against others until it is removed.
* *Price alerts.* A watch removed in mid-cycle is still announced, although `deal_alert_tool.py:117` says it is not. Two processes can
  lose the lowest price between the two statements of `update_price`; each process announces by itself.
* *Webhooks.* `dispatch` returns the number of subscribers, not of deliveries (`dispatcher.py:95`), and drops their results, so the Celery
  task is never retried for a delivery that failed.
* *Event bus.* Without a loop `emit_sync` leaves wildcards out (`event_bus.py:144`), never runs coroutine functions, and iterates over the live list: a handler that leaves makes the next one miss the event, one that subscribes whenever it is called keeps the loop going for ever.
* *Price cache.* With threads `get` and `set` may raise `KeyError` and the size may stay above `max_size`. What is called "LRU eviction" (`redis_backend.py:132`) is first in, first out.
* *Tenants and keys.* `POST /keys` hands out keys (`api_router.py:367`) that authenticate nothing: `verify_api_key` compares with `tenants.api_key`, and
  `validate_key` has no caller outside the tests. `update_tenant_plan` and `deactivate_tenant` return True for ids that do not exist. `rotate_key`
  of an unknown key still creates one, and of an expired or a switched-off key moves its expiry.
* *Audit.* A failing statement, or a crash, between a change and its entry leaves the change unrecorded; `set_tenant_override` swallows errors, so an entry
  may tell of a change that was not made.
* *Configuration.* `set` commits a value that does not cast, and then every load raises: a process that starts afterwards cannot, until the row is
  repaired. Other processes keep their values until their own next `set`.
* *Onboarding.* The "old" plan in the event of `change_plan` may be one that another process has replaced meanwhile. `get_events` orders by stamps drawn before the lock (`manager.py:306`, `345`, `470`): an
  activation stamped first and written last leaves the tenant active with "suspended" shown first.
* *Retention.* The report counts a category as covered by the global policy although the tenant's override is disabled, and counts
  all tenants' rows when no tenant is given; custom categories can bring the score above 100. `enforce` simulates.
* *History.* `save_exchange` is said to be atomic and is two transactions. `get_recent_context`, which only the tests call, promises
  the last messages and returns the first (not modelled).
* *Collections.* `ON DELETE CASCADE` is declared but foreign keys are not switched on; `delete_collection` deletes the items itself, and an item added after that stays as an orphan.
* *IP blocker.* A counter whose `expire` failed never expires: an address is blocked for strikes of any age.
* *Profiles.* Overlapping merges lose one side's list entries; a scalar goes back to the value the later writer had read (`user_profile.py:156`), and `notes` are overwritten even by none (`user_profile.py:164`).
* *Billing.* The clock is read for each of the two bills (`billing_engine.py:60`, `105`): at the turn of a month the prediction is of the new month and below the amount due. As it is made of amounts rounded one by one, it may be
  a cent below the amount due in any month.
* *Notifications.* A notification whose write fails after its audit entry is lost. `get_unread` shows the newest 50.

## 8. What is only model-checked, and what is not modelled

Only model-checked: the five liveness properties, `PendingJobsFinish`, `TasksRecur`, `AlertsKeepComing`, `DispatchEnds` and `EventsAreProcessed`. They follow from
fairness, and the provers used here treat neither `ENABLED` nor leads-to under it. The refinement of JobLifecycle is one of safety: neither side has fairness in it.
Type invariants of modules other than JobQueue are not run by themselves; what types the proofs need is part of their inductive invariants (`Types`, `Shapes`).

Left out of the modelled components: texts, payloads, signatures, statistics and other counters that nothing reads; the choice of backoff
times and sleeping intervals; the scraping itself; `delete` and `invalidate_namespace` of the cache, which nothing calls; two of the Celery tasks,
which only call a scraper and an index builder. A database that fails is a fault that may come at any statement that the
code guards, not one that corrupts the file. Clocks do not go backwards.

Feature flags: `create_flag`, `remove_tenant_override` and `list_flags`, which no endpoint calls. Profiles: the feedback store. `get_stats` of several
stores is a number of SELECTs whose sum nothing depends on. Events of retention are counted, not kept: what a row says is in `op` when it is written.
The components without a module are named at the end of section 2, with the reason.

## 9. Plan

Done: the workers, alerts, webhooks, events, limiter and cache; the abstract specification of the queue; the API with its tables; the stores; proofs of every
safety property.

Worth adding, in this order:

1. **More abstract specifications**, with their refinements proved: of a delivery (sent until acknowledged, given up, never sent again), of a publish (each
   subscriber heard once), of the cache (a finite map that forgets).
2. **Compositions.** Scheduler and queue: a task is enqueued as a job once per interval and executed, so a slow queue piles jobs up. Price alerts and
   price cache: an alert from a cached offer is at most TTL old. Event bus and notifications: a handler's error stays in the bus.
   Limiter and IP blocker: 429 answers are strikes.
3. **Two processes** in PriceAlerts, with what is left of `lowest_price`; two loop threads in TaskScheduler; two workers after `stop_worker`.
4. **What holds when a hypothesis fails**: how many executions two workers can give a job.

Modules that are proved about declare no RECURSIVE operators.
