# Verification of template-server

TLA+ models of `template-server` (Node.js): an API process (`src/index.js`) and any number of notifier
processes (`src/notifier.js`), both built from modules in `src/modules` that share MongoDB and Redis. The
models follow the code line by line of control (every guard, early return, `await` and `finally`), abstract
the data and are checked with TLC on small instances; the safety properties the runs check are proved with
TLAPS for every instance. `PROJECT.json` says for each definition which source lines it models.

The code is single-threaded JavaScript: between two `await`s (or callbacks) nothing else runs, so a step of
a model is what the code does from one of those points to the next. The interesting behaviour is what
happens *at* those points, between processes, and when Redis, MongoDB, clients or processes fail.

## 1. Inventory

| Component | State it keeps | Operations | What makes it correct |
|---|---|---|---|
| Entry points (`index.js`, `notifier.js`, `modules/_class.js`) | status of each module, the position of the launch, the 10 s timer | launch, start/stop of a module, SIGTERM/SIGINT, crash handlers, forced exit | dependencies start first and stop last; modules stop in reverse, each waited for; exit code 0 means that all was stopped; a shutdown ends |
| Notifier (`modules/notifier`) | `#runningJobs`, `#timers`; in Redis `notifier:lock:<job>` | start, scheduleInterval/Daily, runJob, runJobNow, stop | a job runs once at a time over all processes; guard and lock are always given back; a job goes on running after crashes |
| Cache (`modules/cache`) | the ioredis client or `null` | start (degraded without Redis), setnx, del, get, set, incr, expire, exists, stop | never throws; `false`/`null` without Redis |
| Logger (`modules/logger`) | the file of the day, `#logging`, the stream, `#buffer`, `#dbReady`, `#flushTimer` | start, log, connectToDb, flush, stop | nothing is written twice, memory is bounded, the newest messages survive, nothing is written after `end()`, the backlog drains; the file of a day has all its lines, and keeps them |
| Database (`modules/db`) | connections, models | start, stop, req | closes what it opened |
| API server (`modules/api`) | `#draining`, `#activeRequests`, the HTTP server | middlewares, routing, stop in three stages | the count follows the requests; stop waits for them and ends |
| API methods (`modules/api/methods`) | none | checkParams, verify, handler | one response per request; parameters have the types the documentation promises |
| User rate limit | the store (memory or Redis) | key of a user, limit | a user over its limit gets 429 |
| Swagger documentation (`modules/api/swagger.js`) | the session cookie of the UI | schema of parameters, statuses of a route, the UI's guard | says of parameters and answers what the code does |
| Socket server (`modules/sockets`) | `io`, two Redis clients of the adapter | start, events, stop | the adapter has both clients or none |
| Health server (`modules/health`) | the HTTP server | start, stop, GET /health | – |
| Rate limiter (`functions/rateLimiter.js`) | `#tokens`, `#lastRefill`, `#acquireTimes` | acquire, getRps | rate and burst are bounded, up to a debt the concurrency bounds |
| Batch pipeline (`functions/batchPipeline.js`) | pool, totals | processBatches, sendBatchWithRetry, grouping | debt of the limiter bounded by the pool, every user counted once, ends |
| Job helpers (`functions/notifierHelpers.js`) | a Redis set of notified ids per day, the notification log | filterNotSent, markSent, saveNotificationLog | no duplicate, no forgotten user |
| Small helpers (`functions/*`) | none | equal, unique, cloneObject, pluralize… | agree with their definitions |

Interactions: the entry point awaits `start()`/`stop()` of the modules one after the other and calls
`logger.connectToDb()` when the db module is up; every module logs through the logger; notifier, rate limits
and the socket adapter use the cache's client; jobs use the pipeline, which uses the rate limiter. Hard
behaviour: several notifier processes and one lock; the look at `#runningJobs` before an `await` and its use
after it; ioredis sending a command again; a lock that outlives its process, or its process outliving the
lock; signals during launch and during shutdown; flushes by size, by timer and by stop over one buffer;
several processes that create and append to one log file over midnight; a daily timer that fires early or
late around a lock left behind; requests held in the asynchronous rate limiter while the server stops;
callers that sleep at the same time. The list with source lines is `hazards` in `PROJECT.json`.

## 2. Modules

| Module | Models | Composition |
|---|---|---|
| `ExclusiveJob` | abstract: at most one run of a job at any moment | refined by `Notifier` |
| `Notifier` | notifier, its cache client, and Redis, for several processes | `Abstract == INSTANCE ExclusiveJob` |
| `MCNotifier` | instance for TLC (symmetry) | EXTENDS `Notifier` |
| `DailyJob` | the daily timer, the deduplication helpers, jobs that throw, a SETNX that fails, a lock left behind | – |
| `Lifecycle` | launch and graceful shutdown of either process | – |
| `ApiProcess` | the connections the modules of the API process hold, how long they take to stop | EXTENDS `Lifecycle` |
| `LogSink` | logger with its stream and its MongoDB sink, db module | shutdown order taken from `Lifecycle` |
| `LogFiles` | the file of the day shared by the loggers of all processes | – |
| `ApiDrain` | request counting and the stages of the stop of the API server: state and actions | part of `RequestPipeline` |
| `RequestPipeline` | the way of a request through middleware and route, what Swagger says of it | EXTENDS `ApiDrain` |
| `ParamCheck` | `checkParams` and the schema published for it | – |
| `RateLimiter` | `acquire()` by concurrent callers | – |
| `BatchPipeline` | grouping, `processBatches` and `sendBatchWithRetry` | `Limiter == INSTANCE RateLimiter WITH Caller <- Batch` |
| `NotifierProofs`, `DailyProofs`, `ProcessProofs`, `LogSinkProofs` | theorems about `Notifier`, `DailyJob`, `ApiProcess`, `LogSink` | EXTEND their module and TLAPS |
| `LogFilesProofs`, `HttpProofs`, `ParamProofs`, `PipelineProofs` | theorems about `LogFiles`, `RequestPipeline`, `ParamCheck`, `BatchPipeline` | EXTEND their module and TLAPS |

Definitions commented `MUTANT of X` are plausible bugs of the code. They take no part in the specifications;
replacing `X` by one of them must make a property fail, which shows that the property depends on what the
code does.

### Notifier

A call of `runJob` is `<<process, job, slot>>`; `pc` is where it is:

| `pc` | in `runJob` (`notifier/index.js`) | leaves by |
|---|---|---|
| `idle` | not called | `TimerFires`, `RunJobNow`, `Start` (interval jobs run at start) |
| `setnxSent` | awaits `cache.setnx`, Redis has not executed it (142) | `RedisSetnx`, or `SetnxRefused` when the client gives the command up |
| `setnxOK` / `setnxNil` | Redis has answered, the await has not returned | `SetnxResolves` / `SetnxRefused` |
| `run` | awaits the job (154) | `JobEnds` |
| `delSent` / `delDone` | awaits `cache.del` in `finally` (162) | `RedisDel`, `DelReturns` |

`useLock` is the constant of that name, `running` is `#runningJobs`, `ready` is "the cache has a client in
status ready", `lock[j]` is the key in Redis. The code stores the pid in the key and never reads it; the
model stores the call that created it, so that the properties can speak of the owner. `ConnectionLost` puts
answered but unread commands back to "sent": ioredis sends them again after it reconnects, and Redis may
execute them twice. `Expire` is the TTL of 7200 s; `Stop`, `CacheStop`, `Exit` are the shutdown, which does
not wait for jobs; `Crash` may come at any step. `Faults` says what the environment may do: `degraded`
(Redis missing at start), `drop` (a connection breaks), `overrun` (a job longer than its lock's TTL),
`crash`. The lock excludes the runs that took it (`LockedRuns`); a process without Redis runs without one,
as the code says it does.

Assumptions: the round trip of a SETNX is shorter than the TTL (guard of `Expire`); `quit` answers the
commands sent before it (guard of `CacheStop`).

### DailyJob

Time is a tick; a day has `Slots` of them. `NextAt` is `#getDelayMs`, `Fire` the callback of `#scheduleJob`
(the job begins, then the next timer is set). `Begin` is `#runJob` up to the job: the run begins, with the
lock when there is Redis (`RunBegins`); it is turned away by the guard or by the lock (`TurnedAway`); or the
SETNX fails, was carried out or not, and `cache.setnx` answers `false`, which looks the same (`SetnxFails`).
`FilterNotSent`, `Send`, `MarkSent` are the three parts of a job that notifies: those already in the Redis
set of the day are left out, a batch of the others is notified, and the batch is added to the set, which
expires after 24 hours. `key` is the date the run took when it began to send. `JobThrows` is the `catch` of
`#runJob`, at any point of a job, between sending and marking too; `RunEnds` its `finally`. Redis may be
lost, come back or evict a key (allkeys-lru, `docker-compose.yml:84`); a process may crash in the middle and
come back at any time, its lock staying behind. `hit` and `dark` are history: the days on which a crash, a
job that threw, a failed SETNX, a left lock, or a lost Redis explains a notification too few or too many.
Other processes are left to `Notifier`.

Two assumptions keep the model to what the code can do: a run ends before the next day begins, and a job is
not scheduled so close to midnight that a timer that fires early does so on the day before (`Early <=
Target`; such a run would use the key of the day before, and the run of the right time would notify
everybody again).

### Lifecycle and ApiProcess

A module is its position in the sorted launch queue. `LaunchFrom` skips modules with `use: false` (they
become `null`) up to the next `await module.start()`. `StartFails` ends the launch for a priority module and
skips any other. `StopBelow` is one stretch of the loop of `shutdown()`: the highest module that is on is
set to `off` (before `stopFunction` runs, `_class.js:81`) and awaited. Every signal has a shutdown of its
own (`stopping[k]`), as in the code. `ForceExit` is the timer of 10 s, `Crash` the two handlers of uncaught
errors.

`ApiProcess` adds to each start and stop what the module does to the connections. `open` holds those that
are open, or that ioredis tries to open: `models` (the main connection to MongoDB), `logs` (that of the
logs, with `db_enabled`), `redis` (the client of the cache) and `adapter` (the two clients sockets
duplicates from it, when it is `ready` at that moment). `redis` is the status of the cache's client, which
moves between `ready` and `retrying`; after ten tries a client gives up (`GivesUp`). Every close may fail:
`cache` and `sockets` ignore it, `db` does so for the logs and rejects its stop for the models, and the
shutdown goes on in any case. `unclosed` is history: the connections whose close failed, or that a `db` or
`sockets` left whose start failed, which nobody stops. `Second` is a second of the shutdown spent in one
module's stop, `Longest` the timers that bound it: 3 s for the clients of the sockets, 5 s + 2 s for api;
the `quit` of the adapter's clients, of Redis and of Mongo have none.

### LogSink and LogFiles

In `LogSink` a document is its number in the order of the `log()` calls. `Push` is the buffer logic of
`log()`, `Flush` is `#flush` (takes the whole buffer and does not wait), `inflight` are the batches whose
`insertMany` has not settled, `stored`/`lost` what became of them; an `insertMany` is unordered and may
store a part of its batch. `db` is the state of the db module, which the shutdown stops before the logger,
so `Stop` requires `db # "up"`. When `stop()` resolves the process exits without returning to the event
loop: nothing is logged between the two, and no `insertMany` settles. `final` is history, what the last
flush found in the buffer. A `connectToDb` that the launch calls behind a shutdown (a signal before the
launch is over) is left to `Lifecycle`.

In `LogFiles` every process has a logger and all write to one file per day. Finding the file missing
(`Load`, `Log`) and creating it (`Create`, which truncates) are two steps; `pending[p][d]` are the lines in
the memory of p's stream of day d; `Append` writes one of them. At midnight `Log` leaves the old stream to
finish by itself. `Clean` is `#cleanOldLogs`, `Exit` the end of a graceful shutdown, which waits for the
current stream only, `Crash` everything else that ends a process.

### ApiDrain, RequestPipeline and ParamCheck

`req[r]` follows a request through the middlewares in their order: rate limit (asynchronous), static files
and OPTIONS (answered before the guard), drain guard, handler. `HangsUp` is a client that goes: Node emits
`close`, not `finish`. `Stop`, `Deadline`, `Close`, `CutConnections`, `Closed` are the stages of
`stopFunction`. A count of requests that a client abandoned stays in `active`.

`RequestPipeline` opens the step "handler": `work[r]` is the `await` a request is at (`body`, `userLimit`,
`method`, `sent` when the method has answered by itself and goes on) or the status it was answered with
(`own`: one the method chose, in a response of its own or beside an `error_code`, which any method may
return). `AfterGuard`, `AfterBody`, `AfterLimit` are the stretches of code between the awaits, as the sets
of what they may lead to for a route: sanitizing, the UI's guard, `use`, token, role, parameters.
`MethodThrows` after `MethodSends` is the second response: `setHeader` throws, Express destroys the
connection. `Documented` is what `buildPathItem` lists for the same configuration.

`ParamCheck` has one variable per thing a request carries through `checkParams`: the configuration
(`params`), what the client sent (`sent`), the container that is rewritten value by value (`data`).
JavaScript values are written as in the source; the conversions (`+v`, `parseInt`, `JSON.parse`, `new
ObjectId`) are tables over that universe. Keys are the elements of `Name`; those outside `Varied` are plain
parameters, which keeps the run small and is no restriction on the theorems. `Schema` is what
`mapParamSchema` lets a client send.

### RateLimiter and BatchPipeline

Tokens are integers: a token is `Cost` units, `Rate` units flow in per tick, so fractions of tokens exist
without floating point; rounding errors of doubles are left out. Time is relative: `elapsed` is the time
since `#lastRefill`, `wait[c]` the rest of a sleep. A timer may fire late (`Tick` is always possible), and
up to `Early` ticks early: Node counts its milliseconds by another clock than `Date.now()`. A `Date.now()`
that is set back, or forth by more than that, is left out. `acquire()` runs without an `await` up to its
answer or its sleep, so it is part of the step that calls it (`Acquires` in `LaunchBatch` and `Retries`). In
`BatchPipeline` users are grouped in every possible way and each group is cut into batches; the turns of the
loop may interleave with callbacks more freely than in the code, which runs them without a break; this only
adds behaviours. `onBatchDone`, `onError` and `onProgress` may throw; an error of the last two rejects the
promise of the batch, which ends `processBatches` when it waits for it (`Settles`). `reached` and `thrown`
are history variables. Left out: `onBatchStart` that throws, `batchSize` 0.

## 3. Runs

| Run | Bounds | Question | Result |
|---|---|---|---|
| `notifier_exclusive` | 2 processes, 1 job, 2 calls each; degraded, crash | Do runs under the lock exclude each other everywhere, and all runs inside a process? Does nobody take a lock from its owner, is `ExclusiveJob` implemented? | holds |
| `notifier_faults` | 2 processes, 1 job, 1 call each; all faults; fair | Are guard and lock always freed, does a job go on running? | holds |
| `notifier_drop` | 1 process, 1 job, 2 calls; drop | Is a job alone in its process when the connection breaks? | **violated** |
| `daily` | 2 users, 3 days of 4 ticks, timers 1 tick early or late, 1 manual run, 2 faults | Is every user notified once a day? | holds, but for the days a fault explains |
| `api_process` | 5 modules, 3 of priority, any switched off or failing; one signal after the launch; 10 s; fair | Order of start and stop, which connections are open at exit 0, the budget of 10 s, end of the shutdown | holds |
| `lifecycle_early` | 5 modules, signal at any time | Is everything stopped at exit 0? | **violated** |
| `logsink` | 6 documents, batches of 2, buffer of 3, inserts may fail; fair | No duplicates, newest kept, stream closed once, backlog drains | holds |
| `logsink_shutdown` | 4 documents, inserts do not fail | Has what `stop()` found in the buffer reached MongoDB at exit? | **violated** |
| `logfiles` | 2 processes, 3 days, files kept 2, 2 lines, 1 crash | Which lines does the file of a day lose? | only those named by `WholeDay` and `KeepsLines` |
| `http` | 3 requests, one static, one to any route; clients hang up, methods throw; fair timers | Is no counted request cut before 5 s, is the count explained, are answers documented, does a stop end? | holds |
| `params` | one parameter of any configuration beside a plain one, some 25 values, query and body | Does what is accepted fit the configuration, and what the schema allows get accepted with its meaning? | holds, with the exceptions the properties list |
| `pipeline` | 3 users, batches of 2, pool of 2, 1 retry, burst 1, token of 3 units at 2 per tick, timers up to 1 tick early; callbacks may throw, signal may abort; fair | Debt bounded by the pool, totals exact, ends | holds |

Why the bounds are enough. Two processes with two calls each hold every pair of roles the lock knows (owner
and rival, in the same or in another process) and a third party that comes between them; jobs share nothing
but their process, so one job is enough. `notifier_faults` has one call per process because its liveness
graph is much larger; two processes still meet in one lock. Five modules are the API process (logger, db,
cache, api, sockets); the notifier process has the same shape. Three days are the day of a fault, the day
its lock or its date may reach, and one after; `LockTtl` is three ticks of four, a good deal more than 2 h,
so that a lock left in the evening does reach the run of the next day. Six documents overflow the buffer of
three and leave room for two batches on their way. Two processes and two lines are enough for a creation
that comes late and a line of each side of midnight; `Keep` is at least 2, as a file of today or yesterday
may still be written to. Three requests are one each of static, abandoned and varied. In `params` a second
parameter shows that keys do not disturb each other; as it is independent of the first, a plain one will do;
its numbers meet both ends of the interval, which are outside, and one that the forced sign takes out of it.
`Cost` 3 and `Rate` 2 do not divide, so that the rounding of a sleep matters. Every bound is named `BOUND`
where it is declared.

Deadlock is checked for the notifier, which never stops. The other models end (the process exits, the server
is closed, the pipeline returns, the days or the lines are used up, the parameters are checked) and say
`CHECK_DEADLOCK FALSE`.

### Fairness

* Notifier: a call under way takes its next step (jobs end, Redis answers or the client gives up), timers of
  scheduled jobs fire, TTLs run out. No fairness on starts, reconnects, manual runs, stops or crashes. That
  a job ends is an assumption on the jobs: nothing in the code limits one. `JobKeepsRunning` is stated for
  behaviours in which the processes settle (up or down, connected or not, for good): while they restart for
  ever nothing can be promised.
* ApiProcess: the clock of the shutdown, the forced exit, and a stop whose own timer has run out. A start
  may hang, and so may a stop without a timer.
* LogSink: the flush interval fires and `insertMany` settles.
* RequestPipeline: only the timers of `stop()` and the callback of `close()` once no connection is left. A
  handler need not end.
* BatchPipeline: `sendBatch` settles, timers fire, time passes.

### What the violations show

* `notifier_drop`: `#runningJobs` is read before the `await` of SETNX and written after it without a second
  look. A call waits for its SETNX while the connection breaks; a second call finds no Redis, enters without
  a lock and runs; the first SETNX is sent again, granted, and the job runs twice in one process.
* `lifecycle_early`: a signal during the launch stops what is on by then, while `launch()` goes on behind
  it; a module that comes up meanwhile is cut off by `process.exit(0)`.
* `logsink_shutdown`: MongoDB is closed before the logger's last flush, whose `insertMany` in addition is
  not waited for: a document in the buffer when `stop()` is called is not stored when the process exits.

### What the properties that hold say, exceptions included

Several properties are exact: they name the only cases in which what one would like to be true is not.

* `CountExplained`: `#activeRequests` counts the requests being handled *and* those whose client hung up, or
  whose connection was destroyed, while they were counted: it goes down on `finish` only. After one such
  request every later stop waits its full 5 s. The error is on the safe side, and the stop ends
  (`DrainsBeforeClose`, `StopEnds`).
* `AnswerDocumented`: 400, 413, 415 and 429 of the middleware are in no route's list, nor is a status the
  method chooses itself: any method may answer on its own, or return an `error_code` with a `status`
  (without one it is sent with 200). Apart from those a route keeps to its list. A route without `use` is
  listed as if it worked and answers 503.
* `ConformingRefused`, `MeaningKept`: a request that follows the published schema may still be refused: an
  `object` always (`JSON.parse` gets what the body parser has parsed already), a list of one in a query,
  `valid_values` of lists and ids (compared by identity), a number the forced sign moves out of its interval
  or list (only such a one, `SignMovesOut`). And a boolean `true` reaches the method as `false`.
  `AcceptedFits` lets NaN be a number, since it passes every interval.
* `NeverTwice`, `NeverMissed`: a crash, or a job that throws, between sending and marking, a lost Redis or
  an evicted set notify twice; a job that throws leaves out the users it had not come to, a SETNX that fails
  skips the job for the day, and a lock left behind by a crash or by a SETNX whose reply was lost shortly
  before the time of the job (less than 2 h) skips the whole day too. A timer that fires early runs the job
  twice on one day, and the deduplication catches it.
* `WholeDay`, `KeepsLines`: lines are lost by a fatal exit (the handlers log the reason and exit at once, so
  the reason itself may be missing), by a process that found the file missing and truncates it after another
  has created it, and by a graceful exit right after midnight.
* `BudgetKept`: sockets and api may use up the 10 s between them (3 + 5 + 2): then cache, db and logger are
  not stopped.
* `GracefulClose`: exit code 0 does not mean that every connection is closed. The errors of a close are
  ignored by cache, sockets and, for the logs, by db, and nobody stops a module whose start failed; nothing
  else stays open.
* `DebtBoundedByPool`: callers of `acquire()` that sleep together overdraw the bucket, by at most one token
  for each further promise in the pool, and by what flows in during the time a timer fires early.

Further behaviours the models contain that disagree with a comment or the README, and that no run is spent
on (TLC finds each with the constants named):

* With `Faults = {"overrun"}` `MutualExclusion` fails: the lock is set once for 7200 s (`notifier/index.js:132`)
  and never renewed; it expires under a job that runs longer, and the next process is granted it and runs the
  job too. The DEL of the first then takes the lock of the second. `notifier/index.js:19` names no such limit.
* With two signals after the launch (`Signal` of two, `EarlySignals = FALSE`) `CleanExit` and `DependenciesUp` fail
  in `Lifecycle`: a module is `off` before its `stopFunction` has run (`_class.js:81`), so the second shutdown finds
  nothing to stop there and exits with 0 while the first still waits for a drain. Hence one signal in `api_process`.
* In the run `pipeline`, with `Early = 0` too, `tokens` becomes negative: two batches are launched, the second finds
  no token and sleeps until one will have flowed in; the first fails, its retry takes that token; the sleeper wakes
  and takes one that is not there (`rateLimiter.js:66`). `rateLimiter.js:6` says that `acquire()` waits for an
  available token, `batchPipeline.js:14` that the real RPS does not exceed the limit: it does so for a while, by
  no more than `DebtBoundedByPool` allows.
* A failing MongoDB ends the launch (`StartFails`), while `README.md:45` calls it optional. A logger that is
  switched off makes db, api and sockets throw in their start.
* api and the user rate limit decide once, at start, whether they count in Redis; then they stay in memory or fail
  while it is away (the 500 of `UserLimit`).

## 4. Proofs

All constants are arbitrary: any sets of processes, jobs and calls, any finite set of requests and any
routes, a launch queue of any length, batches and buffers of any size, any numbers of users, days, lines and
faults, any rate of the limiter. What a module assumes of its constants is the named ASSUME where they are
declared; TLC evaluates each of them.

| Module | Theorem | Assumes | Statement |
|---|---|---|---|
| `NotifierProofs` | `TypeCorrect` | – | `Spec => []TypeOK` |
| | `GuardNeverStuck` | – | `Spec => []GuardSound` |
| | `GuardIsComplete` | faults: degraded, crash | `Spec => []GuardComplete` |
| | `LocksAreOwned` | faults: degraded, crash | `Spec => []LockOwned` |
| | `JobsRunAloneInProcess` | faults: degraded, crash | `Spec => []InProcessExclusion` |
| | `JobsRunAlone` | faults: degraded, crash | `Spec => []MutualExclusion` |
| | `JobsRunAloneWithRedis` | faults: crash | at most one run of a job, over all processes |
| | `Refinement` | faults: degraded, crash | `Spec => ImplementsExclusiveJob` |
| `HttpProofs` | `HttpTypeCorrect` | – | `HttpSpec => []HttpTypeOK` |
| | `CountIsExplained` | – | `HttpSpec => []CountExplained` |
| | `DrainIsComplete` | – | `HttpSpec => []DrainsBeforeClose` |
| | `AnswersAreDocumented` | – | `HttpSpec => []AnswerDocumented` |
| `ProcessProofs` | `DependenciesAreUp` | signal after the launch | `ProcessSpec => []DependenciesUp` |
| | `ClosesGracefully` | signal after the launch | `ProcessSpec => []GracefulClose` |
| | `ProcessTypeCorrect` | – | `ProcessSpec => []ProcessTypeOK` |
| | `BudgetSuffices` | – | `ProcessSpec => []BudgetKept` |
| `DailyProofs` | `DailyTypeCorrect` | – | `Spec => []TypeOK` |
| | `NobodyTwice` | – | `Spec => []NeverTwice` |
| | `NobodyMissed` | – | `Spec => []NeverMissed` |
| `LogSinkProofs` | `SinkTypeCorrect` | – | `Spec => []TypeOK` |
| | `NothingTwice` | – | `Spec => []NoDocTwice` |
| | `NewestKept` | – | `Spec => []KeepsNewest` |
| | `NoWriteAfterEnd` | – | `Spec => []NoLateWrite` |
| `LogFilesProofs` | `FilesTypeCorrect` | – | `Spec => []TypeOK` |
| | `DayIsWhole` | – | `Spec => []WholeDay` |
| | `LinesAreKept` | – | `Spec => KeepsLines` |
| `ParamProofs` | `ParamTypeCorrect` | – | `Spec => []TypeOK` |
| | `AcceptedIsFit` | – | `Spec => []AcceptedFits` |
| | `RefusalsAreKnown` | – | `Spec => []ConformingRefused` |
| | `MeaningIsKept` | – | `Spec => []MeaningKept` |
| `PipelineProofs` | `PipelineTypeCorrect` | – | `Spec => []TypeOK` |
| | `BatchesPartition` | – | the batches are a partition of the users, none larger than `batchSize` |
| | `PoolBoundsDebt` | – | `Spec => []DebtBoundedByPool` |
| | `TotalsAddUp` | – | `Spec => []TotalsExact` |

Each restriction is needed. A process without Redis runs jobs without a lock; a connection that breaks does
what `notifier_drop` shows; the lock of a job that overruns is free for the next process; a signal during
the launch does what `lifecycle_early` shows, a second one what section 3 says of two signals (`ApiProcess`
assumes one: `ApiProcessAssumption`).

**Notifier.** Neither exclusion property is inductive: they say nothing of the lock and the guard that bring
them about. The inductive invariant is `IInv == TypeOK /\ DownIdle /\ WaitsConnected /\ OwnsLock /\
UnlockedAlone /\ GuardComplete`:

* `OwnsLock`: a call between a granted SETNX and its DEL has its own name in the key, so only the owner's
  DEL can hit it, and two locked runs of a job are the same call. `Expire` keeps it because it takes only
  locks nobody `Holds`; a crash because it resets the calls and leaves the key to the TTL.
* `UnlockedAlone`: beside a run without a lock no other call of the process runs the job or waits for its
  lock. A call that enters later is stopped by the guard (`GuardComplete`); one that waits already is
  impossible, because it would have a connection (`WaitsConnected`) and the other would have used it.
* `GuardComplete`: a running job is in `#runningJobs`. It survives the end of a run because no second run
  shares the entry (`OneRun`, from the two parts above).
* `DownIdle`: a process starts with no call under way. With it `GuardSound` is inductive by itself.

Where every process has Redis, `AllLocked` (connected until the cache stops, and no run without a lock) is
invariant too, given `IInv`; then all runs of a job are the one call that `lock[j]` names, and a set inside
a singleton has cardinality at most 1. For the refinement `runners[j]` is the set of calls in `run` that
took the lock: `BeginRun` (the granted SETNX finds no other run), `EndRun` and `CutRuns` (a process goes)
map the three steps that change it, `NextRefines` shows that every other step stutters.

**Request pipeline.** `IInv == HttpTypeOK /\ Behind /\ CountExplained /\ Drained`. `CountExplained` needs to
know where work begins (`Behind`: a request that has not passed the guard is idle, one in the handler is
not), since a request without its client is told from one that was never counted by its `work` only; each
step then adds to, takes from or keeps the finite set `OnCount` behind the count. `Drained` ties `#draining`
to the stage of the stop: the guard lets nobody in once the poll loop runs, so a count of zero stays zero,
and the server that closes at zero cuts nobody off. `AnswerDocumented` needs `Used`: past the check of `use`
a listed route has `use: true`.

**API process.** The inductive invariant is `Ordered /\ HeldByLive`. `Ordered` joins the launch and the
shutdown: what the launch has not come to is not on and nothing stops while it runs (`Launching`); what lies
above the stopping module is not on (`StoppedAbove`); an enabled module of priority is on, not come to yet,
or not above the stopping one's position (`PriorityOn`). If a module that is not of priority is alive, the
launch has passed every module of priority, which all lie below it, and the shutdown has not come down to
them: `DependenciesUp`. `HeldByLive` gives each connection that is not `unclosed` a live owner, or sockets
in the middle of its start; at exit 0 nobody is alive (`CleanExit`) or starting, hence `GracefulClose`.

**Budget.** `BudgetKept` needs `OnlyKnown` (a module that is up or stops is one of the five the queue may
hold) and `Clock`: while sockets or api stops, the time of the shutdown is the sum of what those two took,
because nothing above them has a stop of its own, and api never takes more than 5 + 2 s. So at 10 s either
both have used their timers, or sockets took longer than 3 s, which only a hanging `quit` does. Neither part
speaks of the launch, which is why these theorems, unlike `DependenciesAreUp` and `ClosesGracefully`, hold
for a signal at any time.

**Daily job.** `ServedInv` (for `NeverMissed`) says where the timer is and why the lock is in no one's way:
`Planned` (it is set for the time of the job of today or tomorrow), `Running` (whom a run leaves out has
been notified today), `LeftBehind` (a lock without its run, or whose run has lost Redis and cannot delete
it, reaches only days that are `hit`, or whose run is over) and `Served` (a day in the past is done; today
either the timer is still to fire for today or the run has begun). `Once` (for `NeverTwice`) says that on a
day that is neither `hit` nor `dark` whoever was notified is in the set or in the batch about to be marked,
and that a set once written lives past midnight; it is inductive only given `ServedInv`. The arithmetic of
days is in a few lemmas at the top, after which no proof looks into `\div`. The proof corrected the model
twice, for constants no run has: a process that starts at the very time of the job waits until tomorrow
(`Init` now counts that day as disturbed), and a lock whose ttl is longer than a day reaches several days
(`LeftLock`).

**Log sink.** A buffer is what was logged since the last flush, or its newest end. `Newest` and `SentOlder`
say so in terms of document numbers: the buffer is an interval that ends with the last number, and whatever
left it is older. With `BatchesApart` no document can be in two places. `Bounded` is stronger than the bound
on the buffer: with MongoDB ready it holds less than a batch, because `log()` flushes at once, and there is
no way back (`ReadyOnce`). `OpenWhileLogging` ties the switch `#logging` to the stream.

**Log files.** `CompleteOrOld` is `WholeDay` with lines that are still in memory counted, and a file is old
only if it was there once. It needs to know that work on a day that is over is yesterday's at most
(`Recent`; so a sweep, with `save_logs` of two days or more, never meets a file that is still written to),
that a stream or a logged line has a file behind it (`Touched`), and that what is in memory was logged
(`PendingLogged`). Streams deliver in order: a line is appended when no smaller one of its process and day
is pending.

**Parameters.** The loop of `checkParams` settles its keys one by one, in any order, and does not come back
to one. So a key that is still to come holds what was sent (`Untouched`), any other has passed, or was
deleted, or is the one that ended the check (`Handled`), a required key was sent once the loop runs
(`Complete`), and a name is returned for a value that is missing or refused (`Reasoned`). With this the
theorems follow from lemmas about one value: a value that passes fits its configuration (`PassedFits`), a
conforming one that does not pass is an exception (`RefusedOnly`), and one that passes is what its sender
meant (`PassedMeant`). The universe of values and configurations stays the one of the model; the parameters
are any set, each of any configuration.

**Batch pipeline and rate limiter.** The debt of the limiter has a simple bound and a subtle reason, since
callers that sleep do not know of one another, and their timers may fire late and in any order. `Owes(P)`
says of each sleeper `c` how full the bucket will be when its timer runs out, `Awaits(c)`: at least `1 - P +
k` tokens less a `Slack`, where `k` is the number of sleepers, `c` included, that wake no later than `c`,
and `Slack` is what flows in during `Early` ticks. The first to wake finds `2 - P` tokens or more and leaves
`1 - P`, the `Slack` apart. The `Slack` does not add up over early timers: a caller that falls asleep
computes its wait from the bucket as it is, debt included. It will find its own token; one that wakes takes
a token and a place with it; when the clock makes a later sleeper catch up with `c`, they await the same.
The bound is proved for every `P` with at most `P` callers: for the pool, and for the number of users, which
shows that the time the model tells apart (`MaxElapsed`) fills the bucket whatever is owed. `Pool` bounds
the callers: the pool is the batches in flight, and `main` does not stay in its loop when it is full. For
the totals `Counted` keeps `sent + errors` equal to the users of the batches that are over, and again to
those of the batches that threw; adding up needs that batches are disjoint, and that without an abort they
cover the users. Both are facts about `Cut`, proved for every grouping: a slice has as many slices before it
as its place says, so places differ (`PlacesDiffer`) and fill an initial segment, and the ranks of the users
of a slice are different numbers out of `batchSize` many (`SlicesAreSmall`).

**Model-checked only.** All liveness (`LockReleased`, `JobKeepsRunning`, `ShutdownEnds`, `StopEnds`,
`BacklogDrains`, `Ends`): it rests on fairness, and `ENABLED` is out of the prover's reach. That
`DependenciesUp` and `GracefulClose` need the signal to come after the launch, and the exclusion properties
the faults named in the table, is shown by the runs that expect a violation and by section 3.

## 5. Not modelled

* Redis and MongoDB themselves, node:http, timers, process death: modelled from how the code uses them,
  marked `external` in the map.
* Command-line arguments, `${VAR}` substitution in configurations, the search for job, method and event
  files, headers, sanitizing of bodies, log formatting: input and output without state of their own.
* Events of the socket server: one handler per event with the same `checkParams`; its JWT handshake.
* The session cookie of the Swagger UI, texts and response schemas of the specification.
* The choice of the stores of the rate limits at start and the counting in them; a `Date.now()` that is set
  back; `getRps()` and its list of times; `fetchNamesMap` and `saveNotificationLog` (a query and an insert);
  an interval of more than 2^31 ms; a health method that meets a module replaced by `null`.
* Pure helpers (`functions/array.js`, `object.js`, `date.js`, ...), Docker and PM2 files.
* `check_status` of the entry points: it only logs, and no module is ever in the status `load`.

## 6. Plan

The safety properties the runs check are proved. What could be proved next: that the number of tokens taken
in any stretch of time is bounded by burst, rate and pool (it needs a history variable in `RateLimiter`),
and that the background process, which shares `Lifecycle`, closes as gracefully as the API process.

Then the socket events on top of `ParamCheck`, and `getRps` with its window. One run per component is
enough; a new component shares a run with the module it extends.
