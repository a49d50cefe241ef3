# Verification of the Nifty portfolio optimizer

TLA+ models of the stateful parts of this repository, model-checked with TLC and,
where a property matters for every size of the system, proved with TLAPS. Paths
below are relative to the repository; `services/`, `routers/` and the like
without a prefix are under `backend/app`, `hooks/`, `context/` and the like under
`frontend/src`.

## 1. The system

A FastAPI back end with a React front end. It fetches close prices from Yahoo
Finance through a price cache, computes a minimum-risk portfolio, saves it, and
serves it back through a Redis cache. Long computations run as jobs in RQ
workers, or inside the API process when there is no Redis; the page that asked
polls for the result. A scheduler refreshes the price cache once a day. Users
hold a session of an access and a refresh token.

| Part | Code | State | Operations | Modelled in |
|---|---|---|---|---|
| Jobs | `routers/jobs.py`, `services/job_service.py`, `workers/tasks.py` | `job:<id>`, `idempotency:<key>`, the RQ queue, runs in progress | submit, deliver, run, update, count failures, time out | `JobSystem`, with `JobPromise` as its abstraction |
| Dead letters | `services/dlq_service.py`, `routers/sre.py` | `dlq:job:<id>`, `dlq:index` | push, retry, discard, list | `JobSystem` |
| Job polling | `hooks/useOptimize.ts`, `services/jobService.ts`, `pages/Optimize.tsx` | the hook's state, its interval, requests in flight | submit, poll, render, react, unmount | `JobPolling` |
| Sessions, server | `services/auth_service.py`, token and user repositories, `core/dependencies.py` | users, refresh tokens | register, login, refresh, logout, admit | `Session` |
| Sessions, browser | `services/api.ts`, `context/AuthContext.tsx` | `localStorage`, `isRefreshing`, `failedQueue`, requests | send, wait, refresh, retry, sign in and out, mount | `Session` |
| Downloader breaker | `backend/src/downloader.py` | `_cb_failures`, `_cb_opened_at` | check, record a success or a failure | `YahooBreaker` |
| Price cache | `backend/src/data_service.py`, `backend/src/database.py` | `prices` table | `get_prices` | `PriceCache` |
| Scheduler and lock | `services/scheduler.py`, `services/distributed_lock.py` | `lock:market-refresh` | acquire, refresh, release, expire | `RefreshLock` |
| Portfolios | `services/portfolio_service.py`, `repositories/portfolio_repository.py`, `models/database.py` | two tables, `portfolio:history:<u>`, `portfolio:<u>:<id>` | optimize and save, list, read, delete | `PortfolioCache` |
| Cache service | `services/cache_service.py` | the in-process store, or Redis keys | get, set, delete, increment | `BoundedStore`; the Redis path by its effects, in its callers |
| Metrics, flags | `services/metrics_service.py`, `services/feature_flags.py` | counters, `ff:*` keys | count, record a duration, report, set, reset | `BoundedStore` |
| `CircuitBreaker` class | `utils/retry.py` | state, failures, date | call | no; no request path calls through it |
| Mathematics | `optimizer.py`, `benchmark.py` | none | | a step that succeeds or raises |
| Legacy code | `app.py`, `src/`, `backend/{services,routers,repositories}` | | | no; `main.py` mounts none of it |

How the parts meet: `POST /jobs/optimize` writes the store and enqueues; a run
calls `PortfolioService.optimize`, which calls `get_prices`, which calls the
downloader; the run saves a portfolio row and drops the owner's history key. The
page polls `GET /jobs/{id}`, which reads the store. The daily refresh is one more
caller of `get_prices`, kept single by the lock. All of them share the cache
service, which turns every Redis error into a miss or a write that does not
happen, and without Redis keeps everything in one bounded dictionary. Every
request but login carries the access token; its 401 starts the browser's refresh.

What is hard here: an update of a job is an unprotected read-modify-write; a job
may be delivered twice (idempotent re-enqueue, ambiguous enqueue, operator's
retry); the breaker is two globals without a lock; cache-aside readers race with
invalidations; several transactions make up one request, the rotation of a token
among them; tabs share `localStorage` and refresh independently; polls overlap
and React runs effects after other answers have arrived; concurrent first
downloads of a ticker; locks that expire under their holder; a store that evicts.
`PROJECT.json` lists each of these hazards at its line.

What makes each part correct:

- *Jobs*: a job that looks unfinished is owned by someone who will finish it; it
  is dead-lettered only when it has earned it; `completed` means a result of a
  saved portfolio; a dead job can be inspected; a final answer stays final.
- *Polling*: a spinner always has something that can stop it, and stops; what is
  shown is the outcome of what was submitted last; no interval is left behind.
- *Sessions*: what `localStorage` holds belongs to one login; a logout is final;
  a refresh token presented after its exchange is refused (two refreshes that
  overlap both pass, see section 3); a tab refreshes once at a time and every
  waiting request is answered.
- *Breaker*: never open without a date; it recovers when Yahoo does.
- *Price cache*: the stored days have no hole, and a call brings them up to date.
- *Lock*: no two refreshes together but for an expired lock, no stolen lock, and
  what a fault leaves behind costs no later day its refresh.
- *Portfolios*: what is cached is what the tables say, or is about to be
  dropped, or is late for a known reason until its time to live; no user
  sees or deletes another's portfolio, as long as the database does not reuse
  ids, as SQLite, the default `DATABASE_URL`, does (section 5).
- *Store*: nothing is evicted that would outlive what stays; the average
  duration reported is never above the longest run, unless the count lapsed or
  was evicted before the sum.

## 2. The modules

Each `X.tla` is a component, `MCX.tla` adds symmetry and instance definitions
for TLC, `XProofs.tla` holds the theorems. Mutants (definitions commented
*Mutant*) are plausible bugs; each property is violated by one of them, as
listed in `PROJECT.json`.

**JobSystem.** `store`, `idem`, `dlq` and `listed` are the Redis keys, `queue`
is RQ, `req` the API threads, `task` the runs, `admin` the operator. Every cache
call is an atomic action and nothing else is: `_update` is `Read` followed by
`Write`, with the copy in `task[x].copy`. The pc of a run is the name of the next
call `run_optimize_task` makes; `Onward` is the control flow between calls.
Answers of the cache are chosen (`"ok"`, `"error"`); an error is one of the
`Faults`, bounded by `MaxFaults`. `failures`, `saved`, `issued` and `excused` are
history variables that no action reads in order to decide what the program does
(`issued` only keeps uuids fresh). RQ's `job_timeout` is two actions. `Timeout`
strikes in the `try` of `run_optimize_task` and lands in its except branch.
`TimeoutUncaught` strikes before the `try` (in `mark_running`) or in the except
branch itself, where nothing catches it, and the run is over: between
`increment_retry` and `mark_failed` it leaves a queued job, between `mark_dead` and
`push` a dead one without a snapshot. `excused` holds the jobs that such a timeout,
a Redis error, a crash or the operator's retry hit: the code leaves them to
nobody, and `NoStuckJob` and `DeadIsInspectable` name them as exceptions instead of
leaving the faults out. What the two show is that no *other* job is stranded
or buried without a trace, by duplicates, lost updates and caught timeouts. `ListJobs` is
what the operator is shown: the indexed jobs whose snapshot is there. Without
Redis `PushIndex` writes no index, so that `DeadIsInspectable` asks for the
listing only of a deployment with Redis.

**JobPromise** and **JobRefinement.** `JobPromise` is what `GET /jobs/{id}`
promises: an open job may move on, a settled one is seen settled until its entry
is gone, and an open one does not stay open. `JobRefinement` maps the store to
it (`ToldNow`: the status, or the 404 of a missing entry) and states
`ImplementsPromise`: `Safety`, that no step breaks the promise, which is proved as
well, and the liveness `Settles`. It holds in the deployment
where each job is delivered once. With duplicate deliveries the code makes no
such promise: a second run turns `completed` back into `running`, which is why
`JobSystem` has weaker properties of its own for that case.

**JobPolling.** The page on the other side of the promise: it EXTENDS
`JobPromise`, whose actions are its server. `setJob`, the render and the effect
are three steps (`SetJob` in `Deliver` and `PostAnswer`, `Render`, `React`);
polls are counted by job and answer, so they overlap and cross. `StopPolling`
clears the interval in `pollRef`, which need not be the one that is ticking.
After `Unmount` setters do nothing, but the POST in flight goes on and creates
an interval that nothing clears until its poll fails. `crossed` is a history
variable: an answer to a poll of an *earlier* job was acted on, from where on the
hook can no longer tell its jobs apart.

**Session.** A request is a slot of a tab; its pc is where it is, from the request
interceptor (`Send`) through the transactions of its handler to the response
interceptor (`Receive`). A slot that met a 401 turns into the refresh it makes
(`validate`, `rotate`, `issue` on the server, one transaction each) and back into
its own request when it is sent again. `refreshing` is `isRefreshing`; the slots
at `waiting` are `failedQueue`. Token `n` is the access token and the refresh
token issued together; `row[n]` is its row, absent for a rotated one, because
`_build_token_response` does not save it. `InsertUser`,
`InsertToken` and `TokenRow` are what the two repositories do with their tables. `Leave` is a page that goes away
(reload, or the jump to `/login`): its callbacks are dropped, the handlers in the
server go on (`gone`). `old`, `mixed`, `exchanged` and `ended` are history variables.

**YahooBreaker.** `failures` and `age` are the two globals, the date kept as its
age, saturated just past the reset timeout. CPython may switch threads at a call,
so `_record_success` is one step, while `_circuit_open` (`CheckOpen`, `Elapsed`)
and `_record_failure` (`Fail`, `Stamp`) split around `time.monotonic()`.

**PriceCache.** A date is the number of a trading day; a price is present or
not. `Begin` is `latest_date` and the split into missing and stale tickers,
`FetchMissing` the unprotected first download, `FetchStale` one group of the
thread pool, in any order and with failures swallowed, `LoadPrices` the final
query with its 80 % threshold. A download may serve any subset of the tickers.

**RefreshLock.** Replicas run the day's job once each: `Acquire` is
`SET NX EX`, `Release` the Lua script, `Expire` the time to live, which pays no
attention to whether the holder is still at work. `CompareAndDelete` is the
script: the key goes only if it holds the caller's token. `NewDay` is the next
firing of the cron trigger, at least `DayLength` seconds later: a key that
nobody released is gone by then because `Ttl` is shorter. `before` is a history
variable, the faults of the earlier days, so `faults = before` says that today
had none. There is at least one replica, since a day without any has no refresh
to speak of.

**PortfolioCache.** Each SQL transaction and each cache call is a step. `Rowid`
is the database's choice of an id and a parameter: PostgreSQL counts upward
(`Sequence`), SQLite without `AUTOINCREMENT` gives the highest id plus one
(`Highest`) and so reuses ids. `RowOf`, `WeightsOf` and `InsertRow` are the
queries over the two tables. `overtaken` and `late` are history variables: the
readers that hold a copy older than an invalidation, and the keys such a reader
filled or a failed invalidation left.

**BoundedStore.** The dictionary `_mem` of the process without Redis, with the
callers that fill it: jobs, flags (and alike the snapshots of dead letters),
answers cached aside, and the counters of `MetricsService`. A call is the
sequence of sections it will enter under the lock (`todo`), so two increments of
one recording, or the five reads of a report, interleave with other threads. The
clock is read *before* the lock is awaited: a section may use any time between
`since` and `clock`. `MemSet` drops what has expired, then evicts by soonest
expiry; `MemAdd` looks neither at the cap nor at the time to live that was left.

## 3. The runs

| Run | Instance | Result |
|---|---|---|
| `jobs_duplicates` | Redis; 2 jobs, 1 key, 2 requests, 2 workers, 2 attempts, one fault of any of five kinds, the operator at any time | `TypeOK`, `NoStuckJob`, `DeadLetterEarned`, `CompletedIsBacked`, `DeadIsInspectable` hold |
| `jobs_single` | no Redis; 2 requests without a key, one restart or expiry | `ImplementsPromise` holds |
| `polling` | 2 jobs submitted one after the other, 2 polls in flight, one lost message or entry | `TypeOK`, `OwnTimerOnly`, `SpinnerWatched`, `OutcomeShown`, `SpinnerEnds`, `PollingEnds` hold |
| `session` | 2 users, 2 tabs with one request each, 3 tokens, no fault | `TypeOK`, `OneUsersSession`, `LogoutEndsSession`, `SessionOnlyByLogin`, `ReuseRefused` hold |
| `session_answers` | 1 user, 1 tab with two requests, 2 tokens, one fault, the account may be closed | `OneRefreshPerTab`, `AnswersComeBack` hold |
| `session_reuse` | 1 user, 2 tabs with one request each, 3 tokens, no fault | **violated**: `SingleUse` |
| `session_rotation` | 1 user, one request at a time, 3 tokens, no fault | **violated**: `LoginOnlyAfterExpiry` |
| `yahoo_breaker` | 3 threads, limit 2, timeout 1, at most 5 failures | `TypeOK`, `OpenGetsDated`, `RecoversWhenHealthy` hold |
| `portfolio_cache` | 2 users, 2 portfolios, 2 threads, sequence ids, one cache error or crash | `TypeOK`, `HistoryFresh`, `DetailFresh`, `OwnDetailOnly`, `DeletesOwnOnly` hold |
| `prices` | 2 tickers, 2 callers, 3 days of which the third is published on the way | `TypeOK`, `NoGap`, `UpToDate` hold |
| `refresh_lock` | 3 replicas, 2 days, 2 faults | `TypeOK`, `Exclusive`, `RefreshedDaily`, `LockIsKept` hold |
| `store` | 2 threads, one job, flag and cached answer, cap 2, times to live 1 and 2, clock to 2, 4 calls | `TypeOK`, `AverageHonest`, `EvictsSoonest` hold |

Why the bounds are enough. Jobs interact only through one entry, one
idempotency key and the queue: two requests and two workers give every pair of
deliveries of one job (request and request, run and run, run and operator), the
second job gives the miss after an expired key, and a limit of two lets a job
fail below and at the limit. A second kind of fault would only excuse the job a
second time. The page confuses at most an earlier job with the last one, so two
submissions suffice, and two polls cross in either order. Sessions meet in
`localStorage`, the token's row and `failedQueue`: two tabs give every overlap
of two refreshes, logins or logouts; three tokens are a login, its rotation and
the rotation of that, or two logins and a rotation; the queue needs the second
request in one tab. (Two tabs with three tokens *and* a fault were checked once
by hand, 16.4 million states, without a violation.) In the breaker, three
threads cover one in each window (a late failure, a late stamp, a success). A
portfolio's cache keys are independent of each other but for the owner, so two
threads, two portfolios and two users show every race of reader and writer; a
third thread would be a second overtaken reader. Three trading days are the
fewest with a hole between two stored ones. Two days of the lock show a key
left over by a fault, and the day after it. In the store, cap 2 with three items
and five counters is reached by the second call, and four calls are two
recordings against a report with one to spare for an eviction; its theorems
hold for every cap and any number of calls.

`CHECK_DEADLOCK FALSE` is set wherever the instance has a bounded number of
requests, tokens, failures, days, calls or portfolios, or the page may have
been left: when they are used up the system rests, as the real one does between
requests. `PriceCache` has callers for ever and keeps the deadlock check.

### The violations

`session_reuse`: `AuthService.refresh` validates a refresh token in one transaction
and revokes it in the next (`services/auth_service.py:58`, `:59`), and the
revocation is an UPDATE that does not ask whether it was the first. Two tabs that
share `localStorage`, and each have an `isRefreshing` of their own, meet a 401
together, both pass the validation and both are answered a new pair.
`routers/auth.py:50` says "Refresh tokens are single-use (rotated on every call)",
`services/auth_service.py:59` "one-time use" and `docs/architecture.md:70` "replay
attacks are detected". What does hold is `ReuseRefused`, after `docs/security.md:45`:
once a token has been exchanged, whoever presents it is refused.

`session_rotation`: `AuthService.refresh` revokes the token it was given and
answers a pair from `_build_token_response` (`services/auth_service.py:73`),
which saves no row; only `_issue_tokens`, the path of login and registration,
does. So the first rotation of a session succeeds and the second is refused,
after which the interceptor clears the session and goes to `/login`.
`docs/evolution.md:185` promises: "User never sees a login page unless their
refresh token also expired". No race and no fault is needed.

### Divergences read off the models

These follow from single actions, so no run is spent on them:

- Two requests with one key that arrive before a worker starts both enqueue the
  job (`routers/jobs.py:78`; the comment on line 77 promises the opposite). The
  optimization runs twice and saves two portfolios.
- A `job_timeout` outside the `try` of `run_optimize_task` (`workers/tasks.py:26`, and
  the except branch, lines 64 to 86) is caught by nothing: the job stays running,
  stays queued with nobody to take it, or is dead without a snapshot (between
  `mark_dead` on line 70 and `push` on line 71). `services/dlq_service.py:4` says that
  failed jobs are moved to the queue "instead of being silently dropped". A crash
  at these points does the same. One that strikes just after `mark_completed` turns
  a completed job into a failed one.
- Two registrations of one email that both pass the lookup: the insert of the
  loser meets the UNIQUE constraint (`models/database.py`), an `IntegrityError` that
  is no `ConflictError`, so `main.py:139` answers 500 where `docs/api.md:45` has
  "409 Conflict (email taken)".
- Below the limit a failed run marks the job failed (`workers/tasks.py:78`) and
  nobody enqueues it again, against `docs/system_design.md:282` and
  `docs/reliability.md:90`. The retry counter advances only when duplicates of a
  job fail, so without them the dead letter queue stays empty: this one is a
  theorem, `DeadLettersNeedDuplicates`.
- The failure of a probe leaves the old date (`backend/src/downloader.py:49`), so
  the breaker, once expired, blocks nothing until a success, against
  `docs/low_level_design.md:433`.
- A list read before a save is cached after the invalidation
  (`services/portfolio_service.py:73`, `:105`), for up to its time to live:
  `HistoryFresh` names these keys as `late`.
- Days before the first stored one are never downloaded
  (`backend/src/data_service.py:20`; the earlier `src/data_service.py:26` did).
  The scheduler's seven-day refresh puts its ten tickers into this state, and a
  later request for a year gets a week.
- After the first replica has released the lock, a replica that fires later
  refreshes again (`docs/system_design.md:322` promises one refresh), and with
  `REDIS_URL` set but Redis down `acquire` raises and the refresh is skipped
  (`docs/reliability.md:27` says the lock is then trivially acquired).
- Counters are not "the last thing evicted" (`services/cache_service.py:44-45`):
  one that has been idle goes before a fresh dead letter or flag, which lives as
  long. What holds is `EvictsSoonest`.
- A poller that crosses two jobs can be left with an interval nothing clears, and
  a job marked `dead` is a status the page does not know: it polls until the
  entry expires and then reports a lost connection.

### Fairness

- `JobSystem`: every handler that has begun, every worker with something in the
  queue and every run takes its next step (threads and processes are scheduled
  by the operating system). Clients, the operator, faults and the environment
  owe nothing. The choice between success and failure of an optimization is not
  fair; no property needs it to be.
- `JobPolling`: the browser renders, runs effects and fires intervals, requests
  are answered or rejected (axios has a timeout), and the server keeps the
  liveness of `JobPromise`. The user owes nothing.
- `Session`: a request is answered or lost, and the browser runs its callbacks.
  For ordinary requests axios's timeout is the guarantee; the refresh is a bare
  `axios.post` without one, so `AnswersComeBack` assumes that the server answers
  it or the connection breaks. Users, other tabs and expiry owe nothing.
- `YahooBreaker`: time passes, callers keep calling and their threads run.
  `RecoversWhenHealthy` is conditional on Yahoo staying up and is about callers
  that keep coming: an unused breaker stays open, as in the code.
- `PortfolioCache`, `RefreshLock`, `PriceCache` and `BoundedStore` state safety only
  and assume no fairness.

## 4. The theorems

TLAPS checks every step of the eight proof modules, for all values of the
constants allowed by the named assumptions (`JobAssumption`,
`BreakerAssumption`, `PriceAssumption`, `LockAssumption`, `PollingAssumption`,
`PortfolioAssumption`, `SessionAssumption`, `StoreAssumption`), which say that
limits are natural numbers, that the absent value is not a real one, that each
request has a tab, that portfolios are finite in number and a new row's id is
free, and, for the lock, that there is a replica and only one without Redis. Six
theorems have a hypothesis of their own, `Sequential` or `SingleDelivery`, which
picks out a deployment; it is explained with them.

- `JobSystemProofs`. `TypeCorrect`: `TypeOK` is inductive as it stands, by
  groups of variables. `DeadLettersEarned` and `CompletedBacked` rest on
  `HistoryInv`, which carries the same bound (counts never exceed the failed
  runs; results only of saved jobs) to every place a copy of an entry is kept:
  the store, a run's copy, count and snapshot, the dead letter queue and the
  operator's snapshot. `NoJobStranded` is invariant under lost updates because a
  run that overwrites an entry with an unsettled status is itself still pending,
  and a timeout in the `try` leaves the run with its except branch to go; a run that
  a crash or an uncaught timeout ends excuses its job;
  `NoStuckJob` is inductive together with `TypeOK` and `ThreadInv`, which says that
  a request thread has no background task under way before it has answered, so
  a thread never drops one run for another. `DeadJobsInspectable` needs
  `IndexInv` beside it: a run that is about to index a snapshot has put it into
  the queue, or a fault excused the job. A dead entry can only come from the
  `burying` write of a run (`OnlyBuried`), since a snapshot is taken before that
  write and the operator's restore says `queued`; and a snapshot of a job nobody
  interfered with is only ever added (`SnapshotStays`).
- `JobSystemProofs`, the refinement. `KeepsPromise`: under `SingleDelivery`, `Spec`
  implies `Promise!Safety` under the mapping of `JobRefinement`, step by step:
  `Create` and the writes of a run are `Proceed`, `ExpireJob` and `Restart` are
  `Forget`, and everything else stutters (`PromiseStep`). The hypothesis picks out
  the deployments, with Redis or without, in which nobody delivers a job twice
  and no delivery is cut short after its last update: no idempotency keys (a key
  enqueues another request's job again), no enqueue that raises (it may have
  landed all the same), no RQ job timeout (it can strike between `mark_completed` and the return, and then
  the completed job is counted as failed), and a limit above one (or the
  operator brings a dead job back). Cache errors, crashes, expiry and restarts
  are allowed. TLC breaks the promise as soon as any one of the four is given up.
  The invariant is `SingleInv`: a job is in one place at most, with a handler, in
  the queue or in a run (`ApartHands`, `ApartRuns`, `ApartQueue`); before its run
  its entry is open or gone and no attempt has failed (`Unrun`), and it stays open
  until the run's last write (`OwnRun`), because a first failure counts one: the
  entry it reads was never retried (`HistoryInv`). So a write from a stale copy
  finds an open entry or none. `DeadLettersNeedDuplicates` from the same
  invariant: in such a deployment no job is ever dead-lettered, however many
  runs fail (see the divergences in section 3).
- `JobPollingProofs`. `OneInterval`, `SpinnerHasWatcher` and `LastOutcome` are
  conjuncts of one inductive invariant. It adds `Answered` (whatever the page
  holds of a job, it holds since that job's POST was answered, so no poll or
  effect is ahead of its interval) and `OneAtATime` (until an earlier job's
  answer is acted on, only the last submission is under way, with the spinner on
  or the page left, and no interval set).
- `SessionProofs`, each of the invariants inductive together with `Types`,
  which says that a request holds what its next step needs (`Shaped`).
  `ReusedTokenRefused` from `TokenInv`: a token that was exchanged or is at `issue`
  has no live row, and no login, expiry or logout of anyone gives it one back, so
  nobody else gets past `Validate`. `LogoutIsFinal` from
  `LogoutInv`: the token a logout posted is still the stored one, or the stored
  one has no live row because a refresh put it there, and rotated tokens never
  get one. `SessionOfOneUser` and `NoSessionFromNowhere` from `StoredInv`: a
  request that no login or logout overtook may only write what belongs to the
  stored user (`OwnsUp`), and without a session every refresh under way is old.
  `RefreshesDoNotRace` from `RefreshInv`: `isRefreshing` names the one request
  under way, and never one of a page that was left.
- `YahooBreakerProofs`. `OpenBreakerGetsDated`: `OpenGetsDated` is inductive given
  the types of the timing variables (`Timing`). A thread that takes the count to
  the limit is itself at `stamp`, no step but a success undates the breaker, and
  a success clears both globals at once.
- `PriceCacheProofs`. `PricesHaveNoGap`: the latest day a call read is in the table,
  where nothing is deleted (`ReadIsStored`), so an increment that starts right
  after it joins on to a gapless set of days. `PricesUpToDate`, from `OnTheWay`:
  while a call is under way, each ticker it wants reaches the required day, or
  its download is still to be made.
- `RefreshLockProofs`. `RefreshExclusion` from `Held`: a replica at work that has
  not been overrun still has its token in the key. `LockIsNotStolen` follows from
  tokens being different. `RefreshedEveryDay` from `Begun`: until the
  day's first fault its refresh is done, or under way, or the key is free and every
  replica still has its trigger to come, so a replica that skips cannot be the
  last hope of the day. The key is free at dawn (`FreeAtDawn`) whatever the days
  before did to it, because its time to live is shorter than a day.
- `PortfolioCacheProofs`. `PortfolioTypes` holds for every way of choosing ids.
  The other four assume `Sequential`: an id is the number of the row among those
  ever saved, which is what a PostgreSQL sequence does; the model has no more ids
  than rows, so this is the same as never giving one twice. With SQLite's
  `Highest` all four fail, so the hypothesis is not one for the proof's sake.
  `Inv` describes what each thread holds (`Stands`): an id that passed the owner
  check is that owner's row as long as it is there, and a copy that differs from
  the table belongs to an overtaken reader, or a writer has the invalidation
  before it; so a fill is right, or late. `ListsAreFresh`, `PortfoliosAreFresh` and
  `OwnersOnly` are its conjunct `Fresh`; `UsersDeleteTheirOwn` is the action
  property, from the id a deleting thread holds.
- `BoundedStoreProofs`. `IInv` describes what a thread can still have before it
  (`Shaped`: plain sections, a recording of which both increments or only the sum
  are left, or the rest of a report). `Pending` are the threads between the two
  increments; `Balance` says that the count is some `m` plus one for each of them
  and the sum at most `m` times the longest run; `Readings` that a sum already
  read is at most the longest run times the count of now, which only grows until
  the report reads it. `HonestAverage` follows. `SoonestGoesFirst` uses from
  `TypeOK` that no entry outlives its time to live from now.

Every invariant a passing run checks is stated by a theorem. Only model-checked are
the liveness properties (`RecoversWhenHealthy`, `SpinnerEnds`, `PollingEnds`,
`AnswersComeBack`, and the half `Settles` of `ImplementsPromise`), since fairness
and ENABLED are beyond the prover.

## 5. Limits of the models

- The four properties of `portfolio_cache` are checked and proved for ids from a
  sequence. With SQLite's reused ids a delete whose owner check preceded another thread's
  delete and save can remove the new row, since the statement names only the id.
- `ImplementsPromise` is checked without Redis; its safety half is proved with
  Redis as well, its liveness half does not hold there: a crashed run is not
  delivered again.
- The mixed deployment in which the API lost Redis at its start but the workers
  have it is not modelled. `BoundedStore` is the API process without Redis; a
  worker's process has a store of its own that nobody else reads.
- In `Session`, the runs take two tabs with one request each, or one tab with two
  requests, not both; the theorems cover any number. `revoke_all_for_user`, which
  no endpoint calls, the audit log and the hashing are left out. The jump to
  `/login` is one step with the clearing of the session.
- `JobPolling` is one visit of the page; a later visit starts from a fresh hook
  and shares only `currentPortfolio`. React's StrictMode (effects run twice in
  development) is left out. `useHistory` and `useStocks` fetch once per mount.
- In `BoundedStore` an item has no contents; that an evicted job is a 404 to its
  poller is the `Forget` of `JobPromise`. `get_all` of the flags is not one
  atomic read in the code and no property speaks of it.
- A `job_timeout` rings once for a delivery. Inside a cache call `CacheService`
  swallows it like an error of Redis (`services/cache_service.py:123`); that case
  is an error of the call in the model, with the run going on.
- `SingleUse` is checked to fail; that two rotations of one token leave two
  sessions behind has no further effect in the models, because rotated tokens
  are not saved.
- A price is present or absent; that two downloads of a day agree is assumed.
- A SQL transaction is atomic, an RQ job is taken by one worker once, and a
  Redis command is atomic: these belong to the libraries.
- Numbers, layout and logging are left out on purpose.

Not modelled: the `CircuitBreaker` class (registered, never called through: its
endpoint reports it closed for good), the portfolio mathematics (floating
point), rate limiting (slowapi's), wiring and read-only endpoints, the legacy
code that `main.py` does not mount, deployment files and load tests.

## 6. Plan

What is left, in this order:

1. The page in front of the job system: a module that composes `JobPolling` with
   `JobSystem` instead of `JobPromise`, and a theorem about the two together.
2. The mixed deployment: two stores behind one job system.
3. `MarketData`: lock, price cache and breaker composed, as the scheduler uses
   them.
