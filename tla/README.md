# A verification development of the Kubernetes cost analyzer

TLA+ models of the cost analyzer's stateful parts, the TLC configurations that
check them on small instances, and proofs of the properties that matter most,
checked by TLAPS for every value of the constants. Paths below are relative to
`src/`.

## 1. The system

| part | state it keeps | operations | where |
|---|---|---|---|
| Collector | informer cache, ticker, metrics; writes the fact table | wait for the caches; every interval collect one aligned window and write it in one transaction | `cmd/collector`, `internal/costing`, `internal/kube`, `internal/prom`, `internal/pricing` |
| Fact table | `container_allocations`, keyed by (window_start, pod, container) | upsert | `internal/store/postgres/allocation_repo.go`, `migrations/000001*` |
| Daily rollup job | `container_allocations_daily`, advisory lock 8314001 | resolve the range, list the days with facts, rewrite each day | `cmd/rollup`, `internal/rollup`, `internal/store/postgres/{lock,rollup_repo,querier}.go` |
| Monthly statements | `monthly_reports`, frozen by `finalised_at` | generate, finalise; an operator un-finalises | `internal/store/postgres/monthly_report_repo.go`, `migrations/000004*` |
| HTTP API | informer cache, freshness gauges, rate-limiter buckets, connection pool | read-only queries, inventory from the cache, readiness, rate limit and keys, shutdown | `cmd/api`, `internal/httpapi`, `internal/health`, `internal/store/postgres/{report,stats,rollup,freshness}_repo.go`, `allocations_page.go` |
| Price list | none once loaded | validate, look a node's rates up, cost of a reservation | `internal/pricing` |
| Configuration | none once loaded | read the environment, validate it as a whole | `internal/config` |
| Recommendation engine | none | pure functions of usage statistics | `internal/recommend` |
| Dashboard | none | renders the API | `web` |

How they interact. The collector is the only writer of facts; the rollup job
reads facts and is the only writer of daily rows; the monthly close, which is the
same binary, reads daily rows and writes statements; the API reads all three. All
of it meets in Postgres: there are no messages between processes, and the
transactions, their READ COMMITTED snapshots, one advisory lock and two triggers
are the whole of the synchronisation. Kubernetes starts, signals and kills the
processes: a Deployment for the collector and the API, two CronJobs for the rollup
and the monthly close.

What is hard:

* concurrency: two rollups (the CronJob controller may double-fire, an operator
  runs a backfill) meet on one day; the collector writes while a day is rolled
  up; an operator's SQL meets a regeneration;
* atomicity: DELETE and INSERT of a day, generate and freeze of a month, the
  dimensions and the facts of a window;
* failure: a statement fails, a COMMIT's answer is lost, SIGTERM arrives at any
  statement, the process is killed with its transaction open, Postgres ends the
  session that holds the lock;
* time: a day and a month must have ended before they are frozen, the last
  window of a day is collected after midnight, retries overlap the first try.

`PROJECT.json` lists every component, what is modelled of it, and under `hazards`
each of these at the line where it bites.

What makes each part correct:

* rollup: mutual exclusion; a day is one transaction's projection of its facts;
  no reader sees an emptied day; no listed day is silently missing; the lock is
  let go;
* statements: a finalised statement never changes; nothing is frozen before its
  month ends; a frozen statement sums each fact of its month once; the scopes add
  up; a close that got the lock and exits 0 leaves nothing of its month open;
* collector: no window is counted twice or half written; no window is recorded
  from an empty cache; a clean cycle is what moves the freshness timestamp; a
  stop, or a goroutine that fails, ends the process;
* API: no client that readiness lets in is answered from a cold cache; the pool outlives
  the requests; a stop is bounded and is not a failure; forgetting idle clients gives
  nobody a token; a listing neither repeats nor loses rows while the table grows, and a
  page is in one currency; figures from two tables differ by what only one has;
* pure parts: advice leaves the headroom and promises no more than is spent; the pods of
  a node together cost what the list says of it; one refused start names every mistake.

## 2. Modules

| module | what it is |
|---|---|
| `RollupJob` | the rollup: invocation, lock, range, a day's transaction statement by statement, faults, release, and the collector as its environment |
| `DailyTable` | the abstract specification: what a reader of the daily table is promised |
| `MonthlyClose` | EXTENDS `RollupJob` with `RunMonth`, the statements, the triggers and the operator |
| `Collector` | the collector's three goroutines, its ticker and cycle, restarts and overlapping processes |
| `FactFeed` | the abstract specification: what the rollup relies on of the fact table |
| `ApiServer` | the API process: its errgroup, server, informers, poller, probe, pool, and the requests in flight |
| `Clock`, `RateLimiter` | the limiter with its lazy sweep |
| `TokenBuckets` | the abstract specification: one bucket for each client, for ever |
| `AllocationPages` | the keyset listing of the fact rows beside writers, with the currency guard |
| `ApiRequests` | composes `RateLimiter` and `AllocationPages` behind the API keys, in the order of the middleware chain |
| `Advice`, `Catalogue`, `Settings`, `Reports` | pure parts as operators: recommendations and their statistics, the price list, `Load` and `Validate`, summary, trend and comparison |
| `MCRollupJob`, `MCMonthlyClose`, `MCCollector`, `MCApiServer`, `MCApiRequests`, `MCFigures` | instances for TLC, the refinement mappings, and the inputs of the pure parts |
| `RollupJobProofs` | type correctness, mutual exclusion, one projection per day |
| `RollupDaysProofs` | a day never vanishes, no listed day goes missing, under every fault; the rollup implements `DailyTable` |
| `MonthlyCloseProofs` | the composition implements `RollupJob`; finalised statements; frozen months have ended; under the schedule, the figures of statements and what a close that ran has closed |
| `CollectorProofs` | type correctness; cycles and their accounting; the ticker, restarts; the collector implements `FactFeed` |
| `ApiServerProofs` | type correctness; no empty inventory; the pool is closed last; the exit status |
| `ApiRequestsProofs` | the limiter implements `TokenBuckets`; a listing has no row twice and none left out; the same of the composition; Retry-After |
| `FiguresProofs` | the configuration, the recommendations and the price list, for every input |
| `ReportsProofs` | the reports agree, for every set of rows, query and state of the rollup; the five properties of `MCFigures` |

### 2.1 RollupJob

A job's control `pc` follows `run` in `cmd/rollup/main.go`:

    idle -> locking -> planning -> loop <-> deleting -> inserting -> counting -> committing
                |         |          |  \______________ DayFails ______________/
              done      exiting    ranged -> exiting -> done        (dead: killed)

| action | code |
|---|---|
| `Invoke` | `run` up to the ping |
| `TakeLock`, `LockIsHeld`, `LockFails` | `TryAdvisoryLock` and its three outcomes |
| `Plan`, `PlanFails` | `-close-previous-month`, `resolveRange`, the reversed-range check and `DaysWithFacts` |
| `BeginDay`, `DeleteDay`, `InsertDay`, `CountDay`, `CommitDay` | `InTx` around `RollupDay`, one action per statement |
| `DayFails` | an error in any of these: recorded, or the end of the run when it is a cancellation; a failed COMMIT may have happened |
| `StopCancelled`, `EndRange`, `Finish`, `MonthFails`, `Release` | the loop's check of the context, the end of the range, the exit code, the deferred unlock |
| `Sigterm`, `Crash`, `OrphanCommits`, `LoseLockSession` | the environment, enabled by `Faults` |
| `NextDay`, `CollectorWrites`, `RelabelFact` | the clock, a window's upsert, a window collected again after a relabelling |

READ COMMITTED is modelled where it shows: the DELETE has the snapshot `snap` of its
start and, when a row it would delete is locked by another transaction, waits and then
deletes what is left of that snapshot; the INSERT and the count read what is
committed when they run. A row stands for its measures by its `window_count`, which
like every other measure is a sum over the same fact rows, and by the transaction
that wrote it: the table has a surrogate key and no unique index over the dimensions.

Abstracted: days are numbers, months have `MonthLen` days, a fact row is its day and
dimension tuple. Flags are records. Configuration, logging and reporting are left
out; a query that succeeds or fails is a statement.

### 2.2 MonthlyClose

A statement is the set of rollup rows it sums, which determines each of its figures
(cost, `days_with_data`, `window_count`); no rows means no statement, since a group
exists only where a row does. `GenerateMonth` is the INSERT ... SELECT and
locks the rows it writes, `CommitMonth` ends its transaction, `FinaliseMonth` is the
single UPDATE with its guard in `RefuseFinalise`. `TriggerAllows` and
`TriggerAllowsDelete` are the two triggers, which every writer passes, the operator's
`UnFinalise`, `OperatorUpdates` and `OperatorDeletes` included. `RunMonth` runs after a
range that had failures just as after one that had none: that is what `main` does. A job
that finds the lock held exits 0 as well (`code` "held"), whatever it was asked to do: it is why
`CloseLeavesNothingOpen` is of a close that got the lock; section 3 says what becomes of the other.

### 2.3 DailyTable

Readers see one figure per day and tuple. A step of the table replaces one day as a
whole by a projection that is at least what they saw and at most the facts.
`RollupJob!ImplementsDailyTable` maps `shown` to the sum over the committed rows.
A doubled day, an emptied day, a half-written day and a projection of the
wrong facts are all steps it does not allow.

### 2.4 Collector

A process is an errgroup of three goroutines: `informers` follows `Store.Start`, `server`
the observability listener, and `pc` the collection loop:

    off -> waiting -> listing -> fanout -> writing -> select -> listing -> ...
    fanout -> select                      (cancelled behind the barrier)
    waiting, select -> stopped -> exited  (and from anywhere: dead)

| action | code |
|---|---|
| `Start` | `run` up to the errgroup |
| `Sync`, `SyncAborted`, `SyncTimesOut` | the three ways out of `Store.Start`, and the closing of the synced channel |
| `ServerStops`, `ServerFails` | `runObservabilityServer` |
| `EnterLoop`, `StopBeforeFirst` | the select before the first cycle; the ticker starts |
| `TakeTick`, `StopLoop` | the loop's select, either case when both are ready |
| `ListInventory`, `CollectNamespace`, `NamespaceFails`, `Collected` | `Engine.Collect`: nodes and namespaces, the fan-out, the barrier and its check of the context |
| `Write`, `WriteFails` | `writer.write` in its transaction and `ObserveCycle` |
| `Exit`, `Crash`, `Sigterm` | `g.Wait`, a kill, the signal |
| `Tick`, `PodAppears`, `PodDisappears` | the clock with the ticker's one-place channel, and the cluster |

A lister shows all there is once the informers have synced; before that it may show
nothing, and never an error (`Cached`). The context that every goroutine reads is `Cancelled`:
a signal, or an error of any of them. The clock moves in units; it does not move while a
goroutine has something ready, while a cycle would exceed `CycleTime`, or while nobody
collects for longer than `DownTime`, and the two together are at most an interval. The
code bounds neither: this is the assumption under which a restart is cheap and no
tick is dropped, and a longer cycle is listed as a hazard that no property covers.
`Overlap` lets an operator start a second process beside the Deployment's only replica.

`RestartCostsOneWindow` counts from `AtRisk(q)`, the window that the end of q costs: its
current one, or the next when it has written that one already. The process that follows
collects the window after it or an earlier one. A process that ended before its first
cycle has no window to count from, and two restarts in a row cost two windows: the
property speaks of the first window after each end.

Abstracted: a fact row is its window and container; usage and cost are not in it. The
containers are those of pods bound to a node. The dimension rows that are written first in
the same transaction are part of `Write`: if one fails the transaction does. The handlers
of the listener are not modelled, but that one may outlast `srv.Shutdown`'s drain is: `ServerStops` then
returns the error that `runObservabilityServer` returns, under the fault `drain_expires`.

### 2.5 FactFeed

`FactFeed!CollectorWrites` is the action of that name in `RollupJob`: some tuples of today or of
yesterday get one more window, none gets more than a day has room for, and nothing is
taken away. `Collector!ImplementsFactFeed` maps the facts to the number of windows per day
and container and the clock to the day (`DayLen` units long, `WindowsPerDay` windows), so
what the rollup is checked and proved under is what the collector does. A window counts
for the day its start is in, as in the rollup's range. The mapping groups by container;
the rollup's tuples are coarser.

### 2.6 ApiServer

| action | code |
|---|---|
| `Start`, `StartFails`, `GroupDone`, `ClosePool`, `End` | `run` and `main`: the dependencies, the errgroup, the deferred `db.Close`, the exit status |
| `Listen`, `ServeFails`, `Shutdown`, `Drained`, `GraceExpires`, `ServerReturns` | `Server.Run` and `shutdown`; `Drained` is what `net/http` does |
| `CacheFills`, `SyncAborted`, `SyncTimesOut`, `Synced` | `Store.Start` |
| `Refresh`, `RefreshFails`, `RefreshTick`, `PollerStops` | the poller of the freshness gauges, whose errors are logged and dropped |
| `ProbeBegins`, `Check`, `ProbeAnswers` | `handleReady` and the aggregator; `Passes` is its three checkers; a panic or a timeout is a check that is down |
| `Arrive`, `AnswerInventory`, `BeginQuery`, `EndQuery`, `QueryUnavailable` | a client's request, from the cache or with a connection |
| `Sigterm`, `DatabaseFails`, `DatabaseRecovers`, `CollectorWrites` | the environment |

The server listens before the informers have synced; between the two only the readiness probe
keeps clients away, and `routed`, the Service's view of it, may be older than the cache or the
database. A query may never end: nothing that is promised here needs it to. `fault` and
`seen` are history variables; they record what went wrong and how requests ended.

### 2.7 RateLimiter, AllocationPages and ApiRequests

`RateLimiter!Request` is `allow` under its mutex: the sweep when one is due, the lookup or a
full new limiter, and `Limiter.Allow`, which keeps tokens and a time and adds what has
accrued. Tokens are counted in units of 1/`Den`, so nothing is rounded. `TokenBuckets` is what
is promised: a level for each client that rises with the clock and falls by a token for each
request allowed. The mapping gives a forgotten client the level of a full bucket; that it had
one is the point, and `LimiterAssumption` says when: a bucket refills within the TTL. The
defaults do so 300 times over; no check of the configuration asks for it.

`AllocationPages` is one client's listing. Each page is a request of its own: `Ask`
evaluates the range (an end that is left out moves with the clock, so a range that was accepted
for one page may be refused as too long at the next), `Guard` reads the
fleet, `ReadPage` reads the rows in a later statement with the keyset predicate, one row more than
the page, and names the last row returned in the cursor. `CollectorWrites` interleaves anywhere:
one transaction sets the cluster's currency to the catalogue's, registering the cluster if need be,
and writes the rows. `money` is the currency each row was priced in; the code stores it for the
cluster only, which is the point, so `money` and `mixed`, what the last page had, are history variables. `due`, a history variable, is what was there at the first page
and has been in range of every request since.

`ApiRequests` puts `Request`, the key check and `Ask` into one action, `AskForPage`, in the
order of `NewRouter`: a request without a valid key costs a token. The client comes back
no sooner than `Retry-After`; others ask, write and register meanwhile.

### 2.8 The pure parts

`MCFigures` has one variable, `input`; each of `TakeRows`, `TakePrice`, `TakeSettings` and
`TakeReport` chooses one of a bounded set of inputs, `Done` puts it back, and each invariant
evaluates the model of the code on it against a definition of what is promised.

* `Advice`: `Stats` is the aggregation of `ContainerStats` (distinct pods, coverage, interpolated
  percentile, latest price), then the five rules in the order and exclusion of
  `analyseContainer`. Memory is in MiB, so rounding up to a MiB is part of the ceiling in `WithHeadroom`;
  confidence, severity and texts are left out.
* `Catalogue`: a price text is blank, white space, bad, or its amount; `Accepted` is
  `LoadCatalogue`, `RatesFor` the precedence of region, default region and fallback and of
  explicit, spot and hourly prices, each division with its rounding.
* `Settings`: `Load` keeps going with a variable's default after an error and validates the
  whole, so `Reported` is a union.
* `Reports`: `CostSummary` reads the facts, `Trend` reads them or the rollup. The rollup is
  `Daily(rolled)`, where `rolled` are the facts that `RollupDay` read when each day was last
  processed: facts of days that were never processed, and what was written or changed since, are not in it.
  Buckets are hours, days, weeks and months (`BucketOf`; every month with as many days, as no
  property tells them apart), `TopGroups` has its tie-break, and `Compare` the check of the window counts. A
  trend, its comparison and a summary are taken of one state of the tables; writes between their queries are
  left out. `TrendIsExplained` is what can be promised of figures from two tables: a trend is the
  series of exactly the facts it charges for, and differs from the summary, group by group, by the facts
  that only one of the two has, of which there are none on whole days that are rolled up as they are.

## 3. Runs

The runs of the writers have two jobs, a holder and a contender, or two collectors, one and
its replacement, which is what every hazard there needs. Each finishes in less than three minutes.

| run | checks | under |
|---|---|---|
| `rollup_table` | `LockExcludes`, `TxReplacesDay`, `OneProjectionPerDay`, `NoDayGoesMissing`, `ImplementsDailyTable` | failing statements, SIGTERM, crashes; two days, two tuples |
| `rollup_faults` | `TypeOK`, `NoDayGoesMissing`, `DayNeverVanishes`, `LockIsReleased` | every fault, lost lock session, late COMMIT and relabelling included; one day, two tuples; `FairSpec` |
| `month_close` | `FrozenStatementsMatchFacts`, `StatementsAddUp`, `CloseLeavesNothingOpen` | the CronJobs' schedule; SIGTERM and crashes; two namespaces, one without a team |
| `collector_cycle` | `CollectorTypeOK`, `NoMinuteCountedTwice`, `UnsyncedNeverCounts`, `SuccessMeansMeasured`, `ImplementsFactFeed` | overlapping collectors; failing queries, statements, syncs and listeners, a drain that runs out; a pod that comes and goes; two namespaces and nodes |
| `collector_clock` | `ConsecutiveWindows`, `RestartCostsOneWindow`, `FailedCycleIsFollowed`, `StopsWhenCancelled` | one collector after the other over three intervals; failing statements and syncs, SIGTERM, crashes; `FairSpec` |
| `month_writers` | `MonthTypeOK`, `FrozenMonthsHaveEnded`, `FinalisedNeverRewritten` | closes by hand on any day, a lost lock session, failures, crashes, an operator's SQL |
| `api_server` | `ApiTypeOK`, `PoolOutlivesRequests`, `ExitStatusIsHonest`, `NoEmptyInventory`, `ShutdownIsBounded`, `FreshnessCatchesUp` | two requests or probes for one connection; a failing start, listener and sync; a signal; a database or schema that fails once; queries that never end; `FairSpec` |
| `api_requests` | `ListedOnce`, `NothingMissed`, `RetryAfterIsEnough`, `LimiterIsBuckets` | two clients, two windows of two rows in two clusters, one of which may register late or change its currency; pages of one or two; ranges with both ends, one or none; a rate below one a second |
| `figures` | `AdviceKeepsHeadroom`, `SavingsWithinSpend`, `NodeCostsAsStated`, `OneRestartRevealsAll`, `ReportsAgree` | the inputs in `MCFigures` |
| `rollup_lost_session`, `month_failed_day`, `page_currency` | one property each, which the code violates | see below |

Bounds: `LastDay` (2, or two months of two days), `MaxWindows` fact rows per day and tuple,
`FactDays` the days that get facts, `Invocations` the flags in play. Two days show a
failure on one that must not reach the other and the order oldest first; one more
window than a rollup saw shows a stale projection; a month of two days has a first
and a last one. `CHECK_DEADLOCK FALSE`: jobs are invoked once each and the system comes
to rest when they have ended. Symmetry is used in `month_writers` only, over the
two jobs, which no definition tells apart.

The collector's interval is two units, so that a cycle may begin at the boundary of a
window or inside one, and the scrape lag is one. `collector_cycle` ends after two
intervals (an overlap needs one window that both write and one that one does), and
`collector_clock` after the fourth boundary, which is the first by which two windows can be
missing after a restart. Its cluster is one container: it is about cycles, not their content. Of the errors that end
a process it has a sync that runs out of time; a listener that fails is only in `collector_cycle`, which is
too large for liveness.

The API's bounds: two requests are enough for one to wait for the connection the other has, and
for a probe beside a client; one outage of the database ends before or after each step of
the probe, the poller and the shutdown. In `api_requests` the TTL is two units and a bucket of
one token refills in one and a half, so that a client is forgotten just after it has
refilled; two rows of one window need the tie-break; a default range of three units
drops a window while it is being listed. In `figures`, three windows with and without a
measurement, pods that run all the time or take turns, requests of zero, entries that are
incomplete or refused, two or three mistakes at once with a repair that is right or wrong,
every subset of six facts over four days of two hours, with weeks of two days and months of three, and
a rollup that has all of them, stops one or more days short, lacks a late fact, or has a figure that
was changed since.

Fairness. `FairSpec` has weak fairness of each job's own steps: a statement returns
or fails, and a statement that hangs is killed by `activeDeadlineSeconds`, so a running
process keeps moving. Nothing is assumed of signals, crashes, the collector or the
clock. For `LockIsReleased` this is enough, since `Release` stays enabled until taken.
For the collector, each process's loop and its sync are weakly fair, since each query and
statement has a timeout or an answer; the listener is fair only in its shutdown
(`ServerStops`), for it need not fail; and the clock goes on up to its bound.

For the API, `Fairness` is weak for `main`, the informers, the server's own steps, the
expiry of the grace period, which is a timer, and the poller's refreshes. `PollerStops` is strongly
fair: the poller's `select` may find the ticker and the cancelled context ready at once, Go
picks one at random, and a tick taken first must not be taken for ever. No query has to end, no client to
ask, no database to recover and no signal to come: `ShutdownIsBounded` holds because of
the timer and `FreshnessCatchesUp` is only of a database that answers.

`Scheduled = TRUE` (`month_close`) adds what `values.yaml` says of the two CronJobs: the
close runs on the second day of a month or later and a scheduled job ends before its
day does. Without it a close on the first day may freeze a month whose last window is
still to come, which is why the schedule says the 2nd.

### What the code does otherwise than it says

| run | what happens |
|---|---|
| `rollup_lost_session` | the lock's session ends, nobody notices, a second job rewrites the same day: both projections stay |
| `month_failed_day` | a day fails to roll up, `main` runs `RunMonth` all the same, and `-close` freezes the month without it; only the exit code tells |
| `page_currency` | a collector's catalogue gets another currency: its next write relabels the cluster's whole history, the guard passes, and a page has money of both |

Other disagreements were met while reading and are not run; each needs its own assumption here or is left out:

* a scope that no longer has rows keeps its old statement when the month is regenerated
  and is frozen with it, so teams can be billed more than the cluster cost
  (`monthly_report_repo.go:173`); `month_close` has no relabelling for that reason;
* a month that was closed with a day missing is not mended by rolling the day up and generating
  again: the frozen statement of the cluster is passed over, a namespace that only that day has gets a new
  one, and the two no longer add up (`monthly_report_repo.go:194`); "one pass makes that inconsistency
  impossible", says its line 112. `month_close` has no failing statement for that reason;
* a job that finds the lock held exits 0 and logs that "the holder is doing this work"
  (`cmd/rollup/main.go:175`), but there is one lock for every kind of run: a close that meets a regeneration
  exits 0 with its month provisional. `CloseLeavesNothingOpen` is of a close that got the lock;
* a handler of the collector's listener may take longer (`WriteTimeout` is 10 s) than its drain of 5 s;
  then the error of `srv.Shutdown` makes SIGTERM alone an exit 1 (`observability.go:154`), against "a shutdown
  request is not a failure" (`store.go:170`). And SIGTERM during the write counts a failed cycle (`cmd/collector/main.go:326`),
  though "a cycle interrupted by SIGTERM did not fail" (`:303`). Both are in the model, `ServerStops` and
  `WriteFails`; no property claims the contrary;
* a cluster of another currency may register between the guard and the reading of a page
  (`costs.go:189`): the page has both, as in `page_currency`;
* the check of a comparison's window counts is skipped when the current period has none
  (`trends.go:211`), so one that was not collected or not rolled up is comparable with one that was, with a change of
  -100 %; and for the rollup both ranges are cut to days (`rollup_repo.go:437`), so two periods of "always the same length"
  (`trends.go:157`) may have a different number of them. `ReportsAgree` says what two sums are of, not that
  they are comparable;
* the pods of a node without a rate are left out of a cycle that counts as a success
  (`costing.go`), so `SuccessMeansMeasured` is of nodes in the catalogue;
* after a restart with another `COLLECTOR_INTERVAL` windows of both lengths cover the same
  minutes under different keys: `EqualIntervals` cannot be dropped;
* `over_replicated` looks at the CPU of one container, although its comment asks for low
  utilisation of the whole workload (`rules.go:341`); beside `right_size` it counts the same
  CPU twice, so `SavingsWithinSpend` is of each recommendation by itself;
* pods that replace one another are counted as replicas, and the statistics do not group by
  cluster (`stats_repo.go:125`): `SavingsWithinSpend` is of pods that ran all the time;
* a fallback with explicit rates only prices at zero, and a price of white space is a zero
  (`catalogue.go:261`, `:293`), against "a silent zero is never acceptable";
* a variable that does not parse is validated with its default, so an error can name a
  second variable that is right (`config.go:353` says otherwise); NaN passes as a rate limit;
* the rollup marks a whole row as estimated where the facts mark each window, so a trend of estimated
  rows charges for more than the summary: `Charged` says which; a comparison sums only the groups that
  fit, so `ComparisonSplits` is of ranges where all do;
* "twelve months back" is eleven when the request is made on a 31st (`params.go:379`);
* the API document gives `API_SHUTDOWN_TIMEOUT` a default of 30 s, the code 15 s.

## 4. Proofs

For every set of jobs, tuples and invocations, every bound, and the faults named:

| theorem | says | assumes |
|---|---|---|
| `RollupJobProofs!TypeCorrect` | `Spec => []TypeOK` | |
| `RollupJobProofs!MutualExclusion` | `Spec => []LockExcludes` | `SessionKept` |
| `RollupJobProofs!OneProjection` | `Spec => []OneProjectionPerDay` | `SessionKept`, `NoLateCommit` |
| `RollupJobProofs!WholeDayReplaced` | `Spec => []TxReplacesDay` | `SessionKept`, `NoLateCommit` |
| `RollupDaysProofs!DayStays` | `Spec => DayNeverVanishes` | |
| `RollupDaysProofs!NoDayMissing` | `Spec => []NoDayGoesMissing` | |
| `RollupDaysProofs!RollupIsDailyTable` | `Spec => ImplementsDailyTable` | `SessionKept`, `NoLateCommit`, `LabelsKept` |
| `MonthlyCloseProofs!MonthlyCloseRefinesRollup` | `MonthSpec => Spec` | |
| `MonthlyCloseProofs!MonthTypeCorrect` | `MonthSpec => []MonthTypeOK` | |
| `MonthlyCloseProofs!FinalisedKept` | `MonthSpec => FinalisedNeverRewritten` | |
| `MonthlyCloseProofs!FrozenHaveEnded` | `MonthSpec => []FrozenMonthsHaveEnded` | |
| `MonthlyCloseProofs!StatementsAlwaysAddUp` | `MonthSpec => []StatementsAddUp` | `Regular` |
| `MonthlyCloseProofs!CloseThatRanClosed` | `MonthSpec => []CloseLeavesNothingOpen` | `Regular` |
| `MonthlyCloseProofs!FrozenStatementsAreRight` | `MonthSpec => []FrozenStatementsMatchFacts` | `Regular`, finitely many tuples |
| `CollectorProofs!CollectorTypeCorrect` | `Spec => []CollectorTypeOK` | |
| `CollectorProofs!UnsyncedNotCounted` | `Spec => []UnsyncedNeverCounts` | |
| `CollectorProofs!NoneCountedTwice` | `Spec => []NoMinuteCountedTwice` | `EqualIntervals` |
| `CollectorProofs!SuccessHasMeasured` | `Spec => []SuccessMeansMeasured` | `EqualIntervals` |
| `CollectorProofs!NoWindowSkipped` | `Spec => ConsecutiveWindows` | |
| `CollectorProofs!RestartLosesOne` | `Spec => RestartCostsOneWindow` | no overlap, `EqualIntervals` |
| `CollectorProofs!CollectorFeedsRollup` | `Spec => ImplementsFactFeed` | `EqualIntervals`, `WholeDays` |
| `ApiServerProofs!ApiTypeCorrect` | `Spec => []ApiTypeOK` | |
| `ApiServerProofs!InventoryIsNeverEmpty` | `Spec => []NoEmptyInventory` | |
| `ApiServerProofs!PoolIsClosedLast` | `Spec => []PoolOutlivesRequests` | |
| `ApiServerProofs!ExitStatusMeansIt` | `Spec => []ExitStatusIsHonest` | |
| `ApiRequestsProofs!LimiterRefinesBuckets` | `LimiterSpec => LimiterIsBuckets` | refilled within the TTL |
| `ApiRequestsProofs!LimiterTypeCorrect` | `LimiterSpec => []RateLimiterTypeOK` | refilled within the TTL |
| `ApiRequestsProofs!EachRowOnce`, `NoRowLeftOut`, `ListingTypeCorrect` | `ListingSpec => []ListedOnce`, `[]NothingMissed`, `[]ListingTypeOK` | |
| `ApiRequestsProofs!ApiLimiterIsBuckets`, `ApiListsOnce`, `ApiMissesNothing` | the same of the composition's `Spec` | refilled within the TTL, for the first |
| `ApiRequestsProofs!RetryAfterSuffices` | `Spec => []RetryAfterIsEnough` | refilled within the TTL |
| `FiguresProofs!EveryRepairReveals` | every environment and repair: `RepairReveals` | |
| `FiguresProofs!AdviceSafe`, `SavingSpent` | every finite set of a container's rows: `AdviceIsSafe`, `SavingIsSpent` | |
| `FiguresProofs!NodesCostAsStated` | every list, node, window and split: `WholeNodeCosts` | |
| `ReportsProofs!FiguresAlwaysAgree` | every finite set of fact rows, query, and finite set of facts that the rollup was made of: `FiguresAgree` | |
| `ReportsProofs!HeadroomKept`, `SpendBoundsSavings`, `StatedPricesCharged`, `OneRestartEnough`, `ReportsAreOne` | `MCFigures!Spec => []` of its five invariants | |

`SessionKept` says that Postgres does not end the pinned session while its job runs,
`NoLateCommit` that no COMMIT lands after its dead client's lock session has ended. The run
`rollup_lost_session` shows that the first cannot be dropped. `LabelsKept` says that a window
collected again after a relabelling does not take a fact away from its tuple, without
which a projection may show less than the one before. `Regular` is what `month_close` runs under:
these three, the CronJobs' schedule, nobody closing by hand or running SQL, and no
statement that fails. Signals and crashes stay anywhere. `month_failed_day` shows that the last
cannot be dropped, and section 3 says why a close by hand breaks the rest.

`EqualIntervals` says that all processes are started with one interval; section 3 says why it
is needed. `WholeDays` says that the interval divides the day, and that a window is written
no later than the day after its own: `CycleTime + Lag + Interval <= DayLen`. The default
of five minutes does so; no check of the configuration asks for it, and without
it a day is not made of whole windows, or gets its last one after the day that follows.

The arguments. `LockExcludes` follows from `LockOwned`: whoever is past
`TryAdvisoryLock` is the session that holds the lock. `OneProjectionPerDay` is not inductive:
a step of `CommitDay` keeps it only if what the transaction deleted is the whole
day, so the invariant `DayInv` carries, for each program point, what `snap`, `gone` and
`ins` are (`ReplacesDay`, the property `TxReplacesDay`), and that holds because the lock keeps
other commits away. `DayNeverVanishes` needs no lock at all: a transaction that deletes
rows of a day inserts a projection of a day that has facts (`Present`), since a day is
listed only if it has facts and facts are never lost. `NoDayGoesMissing` adds the account
of the loop (`Accounted`): each listed day is still ahead, in the open transaction,
failed, or has rows. `FinalisedNeverRewritten` needs that a pending upsert has no
finalised key and locks those it has (`MonthInv`).

The refinement to `DailyTable` adds `Growing` to `DayInv`: no row, committed or inserted, shows more
than the facts, and what a transaction has inserted shows no less than what is
committed for its day. A commit is then a step of the table, the other steps are the
collector's or stutter. The mapping sums over the rows of a day and tuple, of
which `OneProjectionPerDay` leaves at most one, so no induction is needed (`ShownIs`).

The figures of statements need `CloseInv`. A month is `Settled` when no fact can be added to it, from
the second day after its last, and `MonthCurrent` when the rollup shows all of its facts; both stay
(`SettledStays`, `MonthCurrentStays`). `OnTime` says that a close asks for a settled month; `Rolling`
that each of its days is current, still ahead or in the open transaction; so at the end of
the range the month is current, which needs that no statement fails. `Stating` says that
what has been generated then has the rows of every scope (`Ready`) and adds up, and `Phase` how far
a run of the month is, up to the exit code. `StatedInv` is the conclusion: a
finalised key belongs to a month that is `Sealed`, settled, current and with every
statement finalised. The danger was a later generation that passes over a frozen
statement and rewrites the others: of a sealed month it rewrites none. That a
statement's `window_count` is the number of facts is a bijection (`ExactCounts`).

For the collector, `UnsyncedNeverCounts` rests on the order in `Store.Start` (`SyncInv`): a sync that
does not finish has cancelled the context before the synced channel closes, a cancelled
context stays so, and the check behind the barrier is what keeps such a cycle from the
table. `NoMinuteCountedTwice` follows from `WindowInv`, each row's window is a multiple of the
interval, by arithmetic (`NoPartialOverlap`); the conflict target of the upsert then leaves one
row per container. `SuccessMeansMeasured` needs the account of a cycle (`MeasureInv`): each
container that has been there since it began has its namespace ahead or failed, or is in
the result; and that another process's upsert puts the same row in its place.

`ConsecutiveWindows` follows from `ClockOf`: while a process collects, `win` is the window that was
complete when its last cycle began, and either the ticker is due one interval
after that or the tick is in the channel and the clock waits for it to be taken. So the ticker
keeps the phase of the first cycle and no window is between two cycles; this is where
`CycleTime + DownTime <= Interval` is used. `RestartInv` carries the clock over an end:
a process that stops does so `InTime` for the window after the one at risk, nobody collects for
longer than `DownTime` (`DownBound`), and the last end of all is one that was in time (`LastEndCovered`).

For `FactFeed`, what a step adds are rows of one window which were not there; the window is of today or
yesterday (`WindowDay`, by `WholeDays`). That a day has room for them is the pigeonhole
principle: a container's rows of a day are known by their slot in it (`RowSlot`), of
which there are `WindowsPerDay` (`RoomForRows`).

For the API, `NoEmptyInventory` is not inductive: `ColdInv` says that a pod whose cache has not
synced is neither routed to nor has a probe whose check of the cache passed, and `CacheInv` that a synced cache is full.
`PoolOutlivesRequests` follows from `ServerInv`, which ties the phase of `run` to the server's:
the group is done only when the server has returned, the server returns only when it has
drained or the grace period has expired, and a closed listener lets nothing in. The exit
status needs, at each stage of the stop, why it was reached (`FaultInv`, `StopInv`), that no
request is dropped before it (`SeenInv`), and what `End` then returns (`ExitInv`).

The limiter implements its buckets because of `LimiterInv`, a known limiter
let a request through no later than its client was last seen, and of a piece of arithmetic:
what is idle for longer than the TTL has accrued `Num * TTL`, which is at least `Burst * Den`.
The composition then steps as `LimiterSpec` does and as `ListingSpec` does (two step lemmas), so
the components' theorems carry over; `RetryAfterIsEnough` needs `WaitInv`, which relates
the time to come back to what the bucket of a refused client will hold by then.

For the listing, `TableInv` says what is in the tables, `CursorInv` that the cursor comes after no row of the last
page and that each row of it comes before every row listed before, `DueInv` that whatever is due is
listed or still matches. That a page is not empty when another follows is where `MaxPage > 0` is used.

The pure parts are proved for inputs of the shapes that the code can be given: rows of a
container with measures and prices of at least zero (`ContainerRows`), a list whose entries
are numbers or the texts the model knows (`ListShape`), fact rows (`FactRows`) and what the
handlers parse (`Queries`: a filter has no pod column). `MCFigures` has an invariant, `InputOK`, that
each input it takes has its shape, so its five properties follow for it too.
`EveryRepairReveals` needs no shape: `Validate` judges each variable by itself, those linked
to another apart (`ValidateIsLocal`). `AdviceSafe` rests on how few rows lie above an
interpolated P95 (`FewAboveP95`) and on the ceiling in `WithHeadroom`; `SavingSpent` on each rule
giving back no more than is reserved. `NodesCostAsStated` bounds the error of each
division by half a unit. `FiguresAlwaysAgree` needs sums over sets: a fold is
the value of one function (`AddsUnique`, `AddsExists`, by a smallest counterexample instead of
an induction), so a sum does not depend on the order (`SumTake`), splits over disjoint
sets (`SumUnion`) and regroups (`Regroup`): by group, by bucket and, for the rollup, by row
of a day, so that the series of `Daily(rolled)` is the series of the facts behind it. The leading groups are the same on every side because the order is strict (`FirstFew`).

TLC has checked each inductive conjunct that is a property of a run; the others were
found by the proof. Only model-checked are the five liveness properties, `LockIsReleased`,
`StopsWhenCancelled`, `FailedCycleIsFollowed`, `ShutdownIsBounded` and `FreshnessCatchesUp`: they need fairness,
and so ENABLED, which the prover does not reason about.

## 5. What is left

Done: the rollup and the monthly close; the collector; the API process, its limiter and its
listing; the pure parts; a theorem for each safety property and refinement. What could be
added, in this order: the order in which two collectors lock dimension rows, which Postgres
resolves by aborting one (a failed cycle here); cycles longer than an interval, where the
ticker drops ticks; the conversion of Kubernetes objects and the Prometheus results.

### Not modelled

* The arithmetic of usage in the costing engine and the Prometheus queries: the window, the
  failures and the accounting of cycles are modelled, the figures in a row are not.
* Workload resolution and conversion of Kubernetes objects; the informers themselves are
  `client-go`'s, and only what its listers show before and after a sync is used.
* Hashing of keys, request identifiers, request logging and metrics, and the encoding of the
  cursor: they keep no state that a property here is about.
* Listing of months and clusters over HTTP, rendering and single parameters.
* Logging, build information, migrations other than the tables and triggers that are
  named above, the dashboard and the deployment's manifests other than the CronJobs'
  schedule.
