# A TLA+ verification of sporty

sporty is a FastAPI service that turns the SportyBet football feed into
predictions and accumulators, keeps a user's selections, books share tickets at
the provider, and runs expensive generations as background jobs through a Redis
list and worker processes. Several API replicas and several workers may run at
the same time; PostgreSQL and Redis are the only shared state.

Contents: [inventory](#inventory) · [modules](#modules) · [runs](#runs) ·
[fairness](#fairness) · [proofs](#proofs) · [disagreements](#disagreements) ·
[abstractions](#abstractions) · [not modelled](#not-modelled) · [plan](#plan)

## Inventory

| component | code | state | operations | interacts through |
|---|---|---|---|---|
| job API | `jobs.py`, `routes/jobs.py` | `prediction_jobs` | create row, RPUSH, read row | table, list `jobs:prediction` |
| job worker | `job_worker.py` | list, `job-lock:{id}`, row, counters | BLPOP, SET NX EX, run, record, RPUSH, DEL | Redis, table, executor |
| job executor | `job_executor.py` | none | feed, predictions, generator | provider client |
| rate limiter | `rate_limit.py`, middleware in `main.py` | `rate-limit:{client}` with TTL | INCR, EXPIRE, TTL; 429, 503 | Redis |
| selections | `selection_service.py`, `routes/selections.py`, `models.py` | `selection_sessions`, `selections` | create, get, add, remove, delete | tables; a lock per replica |
| tickets | `ticket_builder.py`, `ticket_history_service.py`, `routes/tickets.py`, `routes/history.py` | `ticket_history` | read session, validate and reprice, book, record | selections, provider client |
| provider client | `providers/sportybet/*.py` | per-instance locks, `_FEED_CACHE` | feed, event lookup, booking; retry, fall back, stale feed | HTTP |
| custom tickets | `routes/generators.py`, `odds_optimizer.py`, `prediction_service.py` | the search's beam, one request long | fetch page, predict, search | provider client |
| strategy generators | `one_k_generator.py`, `five_k_generator.py`, `weekly_safe_generator.py` and their routes | the states of a search, one request long | search the predictions of all markets; merge two fetches | provider client; called by routes and executor |
| market lists | `market_generator.py`, `routes/predictions.py` | none | filter and sort | provider client |
| analysis | `analysis_service.py`, `providers/gemini` | none | one request | HTTP |
| health, meta, config, db, observability, UI, deployment | rest | none of its own | | |

What is hard, and what makes each part correct:

* **Jobs.** A row is committed before its message is pushed; a worker pops the
  message before anything is recorded, takes a lock that does not name its
  owner and runs out after an hour, and pushes the retry while it still holds
  that lock. Processes die and Redis calls fail, or are applied without an
  answer. A job must not be executed twice at once, must not exceed its
  attempts, must not change after its end, and should end; no counter may run
  ahead of the table. An idle worker waits for Redis as long as its client does.
* **Rate limit.** Replicas interleave between INCR, EXPIRE and TTL, any of which
  may fail. A client must not get more than its limit in a window, should get
  all of it, and must get a new window.
* **Selections.** The service checks and then commits; its lock is local to a
  replica. The tables must keep one selection per event, no orphans, and an
  addition that is answered as stored must be there.
* **Tickets.** A build awaits the provider several times while the session and
  the feed change under it, and books before it records. History must contain
  only tickets the provider made, of the selections that were read and at prices
  that were on sale.
* **Provider client.** Retries, two providers, a shared cache and a lock per
  instance. Every provider is to be tried before a call fails, what any call
  has fetched is to bridge an outage, and every call is to end.
* **Job executor.** What an execution does depends on a feed that changes
  between the attempts; an outage, a poor feed and a bug end in the same
  exception. A job should only be given up for a reason its type allows.
* **Custom tickets.** The search keeps a bounded beam, compares floating-point
  logarithms and does not tell orders of the same selections from different
  tickets; it is repeated page by page. A ticket must reach the target with one
  selection per event, and the cut must not cost the ticket or make it longer.

* **Strategies.** The 5k generator keeps the best of several shuffled attempts; the
  weekly generator prunes by days and odds while it adds one candidate after
  another, and its endpoint merges two fetches of a feed that changes. A
  ticket that exists should be found, and no market be lost or mixed.

## Modules

| module | what it is |
|---|---|
| `JobLifecycle` | abstract: what a client that polls one job may observe |
| `JobQueue` | the queue, its locks, workers and API, with faults; implements `JobLifecycle` (`LifecycleSpec`) |
| `JobQueueProofs` | theorems about `JobQueue` |
| `RateLimiter` | the limiter with the middleware's decisions |
| `RateLimiterProofs` | theorems about `RateLimiter` |
| `SessionTables` | the three session tables and their transactions; shared by the next two |
| `SelectionStore` | concurrent `/selections` requests over the tables |
| `SelectionStoreProofs` | theorems about `SelectionStore` |
| `TicketBuild` | abstract: what a build over the same tables promises, with a changing session and feed |
| `TicketBuildProofs` | theorems about `TicketBuild` |
| `TicketBooking` | the build endpoint composed with `ProviderClient`; implements `TicketBuild` (`BuildSpec`) |
| `TicketBookingProofs` | theorems about `TicketBooking`, the refinement among them |
| `ProviderClient` | retries, fallback, locks and cache of the provider client |
| `ProviderClientProofs` | theorems about `ProviderClient` |
| `JobExecution` | `JobQueue` composed with `execute_prediction_job` and a changing feed |
| `JobExecutionProofs` | theorems about `JobExecution`, over those of `JobQueueProofs` |
| `PythonLists` | Python's comprehensions, `sorted` and `dict` on sequences |
| `OddsOptimizer` | the beam search of `OddsOptimizer.optimize` |
| `CustomTicket` | a request for a custom ticket: pages, predictions, search |
| `WeeklySafe` | the search of `WeeklySafeGenerator` |
| `Generators` | all searches and their endpoints: `CustomTicket`, 1k, 5k, `WeeklySafe` |
| `GeneratorsProofs` | theorems about `Generators`, and the lemmas about lists, sums and selections they need |
| `MC*` | instances for TLC |

Correspondence of state and actions:

* `JobQueue`: `job` is the table (without progress and timestamps), `queue` the
  list, `locked` the existing lock keys, `pc`/`cur` where each worker is in
  `process_job` and with which message, `api` how far a POST has come, `meter`
  the counters of `metrics.py`. One action per Redis command or database
  session, in the code's order: `Poll`, `AcquireLock`/`LockBusy`,
  `SkipCompleted`/`StartJob`, `ExecuteReturns`/`ExecuteRaises`,
  `RecordFailure`, `CountRetry`, `CountFailed`, `RequeueJob`, `CompleteJob`,
  `ReleaseLock`. Recording a failure is its commit only: the counters follow it
  in steps of their own, and a worker may end between them. Each command has its
  failing counterpart (`PollLosesMessage`, `AcquireFails`, `SessionFails`,
  `RequeueFails`, `ReleaseFails`), and `Crash`, `Restart` and `LockExpires` are
  the machines' steps. A push or a commit that raises may have been applied
  (`Committed`). An idle BLPOP returns nothing (`PollTimesOut`) or, unless the
  client's socket timeout outlasts it, raises and ends the worker (`PollRaises`).
* `RateLimiter`: `bucket` is the key (count, and whether it has a TTL), `at` the
  next command of each request, `passed` a history of what was let through since
  the key was created. `Incr`, `Expire`, `ReadTtl` are the three commands with
  the decision that follows; `IncrFails`, `ExpireFails`, `TtlFails` and
  `ReplicaDies` their faults, and `IncrResent` that of a client that sends an
  INCR again when its reply was lost (`Resends`); `WindowEnds` is Redis.
* `SessionTables`: one operator per committed transaction, with the constraints
  of `models.py` as guards (`Fits`, `Open`) and its cascades in `DeleteSession`.
* `SelectionStore`: `req[r]` is the request a replica works on. `FindSession`,
  `FindConflict`, `FindItem`, `Reread`, `Respond` read; `Commit*` commit;
  `CommitRaises` is a flush or commit that raises. `Respond` is `_response`.
* `TicketBuild`: `build[b]` is the local state of `TicketBuilder.build`,
  `booked` what the provider made, `shown` a history of the prices on sale.
  `Record` is the commit of the row, `Refresh` the read that follows it; a
  commit whose answer is lost is one of the ways of `RecordRaises`.
* `TicketBooking`: `post[b]` is that local state, and `call[b]` the client
  method the build awaits. Each POST creates its own `SportyBetClient`, so
  `Client == INSTANCE ProviderClient WITH Calls <- Builders, Clients <- Builders`
  has no lock to share. A step is one request of the client with what the build
  makes of it: `CallsClient` begins the next lookup or the booking,
  `RequestFails` is a failed request (a booking may have been made all the
  same), `Validate`, `NotOnSale` and `BookingAnswered` an answer, `CallFails` a
  call that raised, with the status `ProviderClient` gives it. The refinement
  mapping takes a build's `attempts` from the client: the requests for the
  booking whose end is known, of both providers together.
* `ProviderClient`: `call[c]` is one awaited client method, `cache` the age of
  each entry, and `fetched` a history of how long ago a call was last answered
  with each feed, which `Observe` reads off the answers and not off the cache.
  `ProviderFails` is the `except SportyBetError` of the three
  methods and what follows the last of them.

* `JobExecution`: `feed` is what `get_upcoming_events` finds when an execution
  asks, `met` a history of what the executions of each job found. `Execute`
  joins `ExecuteReturns` or `ExecuteRaises` of `JobQueue` to the outcome the
  type and the feed decide (`Succeeds`); the rest of the worker is `Carry`.
* `OddsOptimizer`: `candidates`, `beam` and `ticket` are the local `candidates`,
  `states` and the result; `Round` is one pass of `while states`. Odds and
  qualities are integers; `\E exact` picks which of the states that equal the
  target the rounding of logarithms lets reach it. `CustomTicket` adds the
  request's market, the pages fetched and the answer; `Predictions` is
  `PredictionService.generate` and `generate_all_available`.

* `WeeklySafe`: `states` are the code's, `tried` how far its loop has come;
  `TryCandidate` is one turn of the loop with the `_prune` at its end, and
  `Conclude` what follows the loop. `Generators` starts each search with a list
  of outcomes: `OneK`, `FiveK` with one `FiveKAttempt` per shuffle (any
  permutation of the pool), `WeeklyStart`; `Route*` are the three endpoints,
  with `Merged` for the two fetches of the weekly one. An outcome has an
  `active` and its market a `marketActive`: predictions need both (`Live`), the
  loop of the endpoints fails at an active market whatever its outcomes.

Definitions whose comment starts with "Mutant" are broken variants of the
definition below them. No specification uses them; they exist to show that each
property fails for a plausible bug.

## Runs

| run | bounds | shows |
|---|---|---|
| `jobs_faults` | 2 jobs, 2 workers, `MAX_RETRIES` 3, all faults, locks lapse | safety from the message alone, counters never ahead of rows, and the refinement of `JobLifecycle` |
| `jobs_redelivery` | 1 job, 2 workers, all faults, pushes may double | safety from the lock alone; no lock stays |
| `job_execution` | 2 jobs (weekly_safe and btts), 1 worker, a feed of four classes, no faults, the read outlasts the poll | every accepted job ends; market lists fail only by outages |
| `jobs_two_workers` | 1 job, 2 workers, executions may fail | a retry can be lost (expected violation) |
| `jobs_idle` | 1 job, 1 worker, no faults, the configured timeouts | an idle worker ends (expected violation) |
| `rate_limit` | 2 clients, 3 requests, limit 2, 2 faults, INCRs may be sent again | budget kept and used, windows end |
| `rate_limit_stuck` | 1 client, 2 requests, limit 2, 1 fault, nothing sent again | a client can stay refused (expected violation) |
| `selections` | 1 session, 3 requests, 3 predictions of one event, two with one id | constraints carry the safety the local lock cannot; what commits is there |
| `selections_exact` | the same, 1 request at a time | another prediction kept than the one sent (expected violation) |
| `tickets` | 1 build with its client, 1 retry, all settings, 1 session, 2 predictions, 2 prices | refinement of `TicketBuild`, history, prices and refusals under concurrent change; every build ends |
| `provider` | 2 calls, 2 clients, 1 key, 1 retry, all settings | fallback, cache against what was fetched, termination |
| `generators` | 3 pages of up to 4 events, beam of 2, every strategy | sound tickets, no shorter or missed one among favourites; merges complete |

Why the bounds are enough for the cases they are meant for: two workers give
every conflict over a lock or a message, and two jobs the conflict of a worker
that holds one with another message behind it; three is the code's own
`MAX_RETRIES`. Three requests over a limit of two have an opener, one at the
limit and one beyond it, and two clients show that budgets do not mix; counts
above the limit are not told apart by the code, so `Limit + 1` stands for all
of them. Two rivals and a third request give every order of add, add and remove
or delete. Builds share nothing but
the session, which a second build does not change, so that one build with a
changing session has all its interferences. A session id is never handed out
twice, so one session shows a session's whole life. `MaxRetries` only bounds
loops; with one retry there is a first, a repeated and a last attempt at each
provider. In `tickets` the feed stops changing when the build has ended, since
nobody reads it then. `MaxFaults` bounds the faults of `RateLimiter`; the proofs
hold for every value of it. Two jobs and one worker in `job_execution` put an
accumulator and a market list behind each other in the list, and four classes of
feeds are all that the outcome of an execution depends on.

The pages of `generators` have one that needs every event, one where a pair is
enough but the best qualities are not in it, one where favourites hide the higher
odds, two markets that number their outcomes alike, and tickets that equal the
target exactly; a beam of two is cut from the first round on, and filled by the
two orders of one pair. The generators by themselves run on every list of four
events with two to four prices each, the last with a second market, over three
days: lists that cannot reach the target, that reach it with the last candidate
only, and that reach it but not the days. One page has odds of 150, where the
implied probability is held at 0.01, a suspended market and a withdrawn outcome.
Two attempts of the 5k generator take every permutation of a pool of three. Every step
advances and deadlock is checked, so every request is answered.

That the beam costs nothing (`FewestLegs`, `NothingMissed`) is not a property of
beam searches. It holds here because `_prepare` keeps one prediction of each
market of an event and because the score follows from the odds: with the
probability that `_implied_probability` makes of them, `1/odds` held between 0.01
and 0.99, `0.15` times the quality never falls faster than `ln(odds)` grows, for
any odds above 1, so the best score is always that of the highest odds. A
probability that does not come from the odds would end that. Both properties
measure events by the lowest of their odds, which is all that holds: the search
keeps one outcome of each event and market, and a ticket of others may be shorter
or the only one. For the weekly generator (`WeeklyIsExact`) the reason is
another one: candidates come day by day, and the state that has taken them all
leads in days and odds, so `_prune` never drops it. The same argument makes its
code after the loop dead: the first state that qualifies is returned inside the
loop, and no limit per day changes which days can be covered.

`jobs_faults` needs no duplicated pushes (`Redelivery = FALSE`) and
`jobs_redelivery` no lock that runs out under a live holder
(`LapseWhileHeld = FALSE`). Each run drops the other's assumption; with both
hazards at once executions can overlap. `Redelivery` is what a Redis client with
retries does when the reply of an RPUSH is lost; `pyproject.toml` admits client
versions with and without such retries by default, and `Resends` says the same
of the limiter's INCR: `rate_limit` allows it, `rate_limit_stuck` does without.
`LapseWhileHeld` needs an execution of more than an hour. `ReadOutlastsPoll` says
that the client's socket timeout is longer than the five seconds of the poll. It
is false of the configured `REDIS_TIMEOUT` of 5, as in `jobs_idle`, `jobs_faults`
and `jobs_redelivery`; `job_execution` and `jobs_two_workers` assume a longer one, so that what they
show of the end of a job does not depend on `jobs_idle`.

## Fairness

* `JobQueue!FairSpec`: weak fairness of each worker's fault-free steps, of the
  RPUSH that follows a committed row, and of the expiry of keys. Every await in
  `process_job` is bounded by HTTP and Redis timeouts or a sleep of at most ten
  seconds. An idle worker goes on polling only as long as its read outlasts the
  poll; `PollRaises` is no step of a running worker, and nothing is owed to a
  worker that has ended: `docker-compose.yml` has no restart policy. Nobody is
  obliged to send a request or fail.
  `JobsFinish` is checked with `Faults = FALSE`: nothing in the code recovers a
  message that a dead worker had popped.
* `RateLimiter!FairSpec`: a counted request goes on, and Redis expires keys.
* `ProviderClient!FairSpec`: every HTTP request ends (httpx timeout), weakly
  fair; taking a lock is strongly fair because `asyncio.Lock` serves its waiters
  in order.
* `JobExecution!ExecutionSpec`: the fairness of `JobQueue`; the feed owes
  nothing.
* `TicketBooking!FairSpec`: a running process goes on with every build, because
  HTTP requests and database calls end by their timeouts and the client's lock
  has no other user. Dying, the users and the feed are not fair, and none of
  them can keep a build from ending (`BuildsEnd`).
* `SelectionStore` and `Generators` are checked for safety only.

## Proofs

TLC checks small instances; the theorems hold for all constants that satisfy the
`ASSUME` of the module (`MaxRetries` positive, `NoJob` not a job; `Limit`
positive; `Stale` and the client's `MaxRetries` natural; `Gone` not a price; the
id of a prediction determines its event; every job has one of the supported
types; `TicketBuild` assumes nothing; for `Generators` see below). `tlapm`
checks every one of them to the last leaf. Every safety property the passing
runs check, invariants and action properties alike, is also a theorem.

`JobQueueProofs`

* `TypeCorrect`: `Spec => []TypeOK`.
* Under `~Redelivery`, `MessageInvariant` proves that
  `MsgInv == TypeOK /\ OneMessage /\ MessageState /\ RetryBudget` is inductive.
  `RetryBudget` alone is not: a worker may record a failure, and whether that
  passes the budget depends on the row being RUNNING with an attempt left, which
  is known only because the message that led there was the job's only one.
  `OneMessage` says that, and `MessageState` ties the row to where it is.
  From it follow `OneMessageAlways`, `RetriesBounded`, `ExclusiveByMessage`
  (whoever executes carries the message), `TerminalRowsFinal` (a final row has
  no message) and `ImplementsLifecycle`: initial states map to initial states,
  and every step to a step of `JobLifecycle` or a stutter.
* Under `~LapseWhileHeld`, `LocksOwned` proves that whoever is between SET NX
  and DELETE has the key and is alone there, though its value names nobody;
  `ExclusiveByLock` and `ResultsFinal` follow, duplicated pushes included.
* `RowsConsistent` and `RowsConsistentByLock`: `RowConsistent` under either
  assumption. It says nothing about the error of a row that failed and is run
  again, so `RowsSound` does: an error if and only if an attempt has been
  counted, until the row is COMPLETED. What it needs of the queue is only that
  nobody writes a COMPLETED row, which the single message gives in one theorem
  and the lock in the other (`StepRows` is shared).
* `CountersNeverAhead`: `MetersBounded`, under `~Redelivery`. That the counters
  equal the rows is false of the code, whose commits and counts are apart, and is
  not claimed: JOB_FAILED may miss a FAILED row, JOB_COMPLETED may count a job
  whose row never became COMPLETED. What holds is that they never count twice and
  never too early. JOB_COMPLETED is counted before the row is committed, and the
  process may die in between; that it is not counted again rests on `Pending(j)`,
  "an execution of the job may still return", which the return ends
  (`ReturnEnds`) and no step brings back (`PendingStep`). JOB_FAILED and
  JOB_RETRIES are counted after the commit, by a worker whose stage says that it
  still owes the count.

`JobExecutionProofs`

* `ExecutionImplementsQueue`: `ExecutionSpec => Spec`. The executor only decides
  between two steps the queue has anyway, so everything above holds of it.
* `ListsFailInOutages`: `OnlyOutagesFail`, for any jobs and types, under
  `~Redelivery`. `ExecInv` adds that a pending list has met nothing but outages
  (`OutagesSoFar`) and that an execution that raised has met something
  (`RaisedMet`): a row becomes FAILED where a worker is "failing", and the job
  is pending until then.

`RateLimiterProofs`

* `TypeCorrect`, and `BudgetAlways`: `Spec => []BudgetKept`, for any number of
  clients, concurrent requests and faults. `BudgetKept` is not inductive: the
  first request of a window is let through after its EXPIRE, and the window may
  only be forgotten by then. `BudgetInv` adds that a window has at most one
  opener and no TTL before it is done (`OpenerAlone`), that an absent key has no
  TTL (`AbsentIsBare`), and that what was let through plus the opener has been
  counted (`PassedWereCounted`).
* `BudgetIsUsed` and `WindowsHaveOwners`: `BudgetUsed` and `WindowHasOwner`, which
  speak of behaviours without faults so far. `UsedInv` turns `BudgetInv` into an
  equation: let through, plus the opener if there is one, is what was counted up
  to the limit; and a window without a TTL has its opener. `WindowHasOwner` is
  what `rate_limit_stuck` loses with the first fault.

`SelectionStoreProofs`

* `OneSelectionPerEventAlways` and `NoOrphansAlways` hold of every transaction of
  `SessionTables` (`CommitKeepsUnique`, `CommitKeepsParents`), whatever was
  checked before it: the constraints carry them, not the checks.
* `AdditionsAreStored` (`AdditionStored`) is about the commit of an addition,
  which relies on reads that may be stale: its id is in the session afterwards,
  and nothing else has gone. That the prediction itself is there is false
  (`selections_exact`). It needs that a request commits once
  (`CommitsOnce`): at a stage before its commit it has not committed yet.

`ProviderClientProofs`

* `EverythingIsTried`: `TriesEverything` is about the end of a call; `Progress`
  says on the way there that a call which has left its first provider has asked
  it, or could not, and that a call which is sending has asked the present one.
* `OutagesAreBridged`: `CacheBridgesOutage` relates how a feed call ends after
  both providers failed to what calls were answered before it. `Invariant` has
  what that needs of the whole client, that the cache holds exactly what calls
  have fetched, at the age they fetched it (`cache = fetched`): every way a call
  is answered with a feed fills the entry, no other does, and both age alike.
* `ClientTypeCorrect`: the types, with the number of requests per provider.

`TicketBuildProofs`

* `BuildInvariant` and, from it, `EveryRowIsATicket`, `EveryPriceIsFresh`,
  `FailuresWriteNothing` and `NothingOutlivesItsSession`: `HistoryIsTicket`,
  `FreshOdds`, `RefusedLeavesNothing` and `NoOrphans` for any number of sessions,
  predictions, prices, builds at the same time and attempts. None of them is
  inductive: a row is written from what the build carries. `Invariant` therefore
  says of each build what it knows (`Knows`: quotes it was shown, one for each
  selection it has checked), what it has done outside at its stage (`HasDone`:
  nothing booked before "booking", no row before "refreshing", the ticket of its
  quotes made from "recording" on) and what its answer left behind (`HasLeft`).
  `OthersKept` and `RowsKept` are the two arguments every step shares: a build is
  not disturbed by another, and a row stays true while tickets are only added.

`TicketBookingProofs`

* `BookingImplementsBuild`: `Spec => BuildSpec`. `Seen(b)` is what `TicketBuild`
  sees of a build, with `Attempts(b)` read off the client: requests for the
  booking whose end is known, at both providers. Each step of the client under a
  build maps to a step of `TicketBuild` or changes nothing it sees: a failed
  lookup that will be retried is a stutter, a failed booking request is an
  attempt that may have booked, and an exhausted call is `GiveUp`.
  The mapping alone is not enough: `GiveUp` needs an attempt, so a booking that
  raises must have been sent at least once, whichever providers could be asked;
  `CallInv` says so, and bounds the attempts by `2 * (MaxRetries + 1)`.
* `BookingInvariant`: `Invariant` ties each stage of a build to the call it
  awaits (`Awaited`: "booking" is a lookup that has just succeeded or a booking
  under way, "recording" a booking that has), and repeats `Knows`, `HasDone` and
  `HasLeft` of the abstract build with `RowInv` for each row. `InvariantStep`
  proves for each action at once that the invariant is kept and that the step is
  one of `TicketBuild`. `RefusalsLeaveNothing`, `RowsAreTickets`, `PricesAreFresh`,
  `RowsHaveSessions` and `BookingTypeCorrect` follow, for any number of builds at
  the same time, where the run has one.

`GeneratorsProofs`

The theorems hold for feeds of any length, any target and any beam width, under
the assumptions of `Generators`. `OutcomesAssumption` gives outcomes their
types, an event one day, and the lists the markets of the enum. `OddsAssumption`
says that of two outcomes with odds above 1 the one of higher odds has the higher
score, `ln(odds) + 0.15 * quality`, which is what `_implied_probability`,
`_quality` and the sort key of `optimize` make of any odds: between 0.99 and 0.01
the probability is `1/odds`, and where it is held constant the expected value
rises with the odds. The code does not cap odds and neither does the assumption.
It says nothing of the order of qualities, which odds beyond some 9900 turn round:
there `_prepare` prefers a long shot to a favourite of its market, and the
theorems hold with the outcome it keeps. TLC evaluates both assumptions on the
pages of `generators`.

* The lists come first. `PythonLists` defines filters and sorts by the order of
  positions instead of recursively, so that what they return can be proved:
  `KeptElements`, `SortedElements`, `BestElements` and `JoinedElements` say
  which elements a comprehension, `sorted`, a `dict` and a concatenation have,
  and in which order. Inductions, over the length of a list or the size of a
  set, go through `Inductive`: a set of naturals that has 0 and every successor
  has all naturals.
* `SearchIsInvariant`. What `optimize` knows after a round is `LeadsRound`: its
  first state is a heaviest selection of its length (`Heaviest`), by score, and
  no selection of its length or less exceeds the target (`Explored`). No
  selection of n + 1 weighs more than any heaviest one of n with an element of
  that selection added (`HeaviestGrows`), so a beam that keeps its first state
  keeps what matters, however it is cut. `OddsAssumption` carries the argument
  from scores to odds (`HeaviestOdds`). `Covers` ties the candidates `_prepare`
  leaves to the outcomes on offer, so that `Explored` speaks of the page
  (`EventsLog`) and not of what the search made of it. `TicketIsSoundAlways`,
  `FewestLegsAlways` and `NothingMissedAlways` follow.
* `WeeklyIsInvariant`. `_prune` may drop any state but one: the prefix of all
  candidates tried (`Tried`) beats every other state in days, then in odds, so
  it stays among the `BeamWidth` kept (`Finding`). At the end it is the whole
  list, and whatever any state reaches the whole list reaches
  (`AccumulatorsOfMore`); `WeeklyIsExactAlways` is that equivalence with the
  soundness of the ticket that is found.
* `MergeKeepsMarketsAlways`: the endpoint's dictionaries, keyed by event and
  then by market, lose no market of either answer and mix none. It needs no
  invariant but what the two pages are.
* `TypeOKAlways` from both invariants: the widths of the beams and that what is
  selected is a candidate.

Left to TLC: liveness (`JobsFinish`, `LocksFreed`, `RecoversWithoutFaults`,
`CallsEnd`, `BuildsEnd`) and ENABLED, which the prover does not handle.
`TerminalFinal` is proved (`TerminalRowsFinal`) and checked by no run of its own,
since `LifecycleSpec` implies it.

## Disagreements

Found while modelling; each is shown by a run that TLC ends with a
counterexample.

1. `jobs_two_workers`: `process_job` pushes the retry before it deletes the
   lock. With two workers the retry can be popped and dropped in between, and
   the job stays QUEUED for ever.
2. `jobs_idle`: BLPOP waits five seconds and the client reads for five
   (`REDIS_TIMEOUT`), though the README calls that timeout long enough for the
   blocking read. On an idle list the read may end first and raise outside the
   try block of `run_worker`; the worker ends, and nothing restarts it.
3. `rate_limit_stuck`: when the request that opens a window fails, by an INCR that
   is applied and raises, by its EXPIRE or by dying in between, the key has no
   TTL and no later request repairs it; the client is answered 429 for ever.
4. `selections_exact`: the id of a prediction does not cover its specifier, so
   that adding the other line of a market is answered as stored while the session
   keeps the line it had, against "never substitutes another prediction".

Two need no run, because every single call shows them, without any interleaving;
both are modelled as the code has them:

5. `_response` omits the required `start_time`, so every answer about a session
   with a selection fails, after the commit of the addition it answers
   (`SelectionStore!Respond`).
6. The loop over `Market` meets `Market.ALL`, which has no aliases, and raises
   `KeyError` as soon as the feed has an active market: no 1k, 5k or weekly_safe
   job can complete (`JobExecution!LoopRaises`). The three endpoints have the same
   loop and answer 500 (`RouteEnds`), so the generators behind them run in
   `generators` by themselves.

Others have no violated run; most are listed under `hazards` in `PROJECT.json`:
without `PARSE_API_KEY` a real outage of the direct feed becomes 503 "not
configured" instead of the docstring's 502; the optimizer may miss a ticket that
equals the target (1.1 * 2.0 for 2.2), and the properties of `generators` let
such a ticket go either way; without a filter, outcomes that markets number alike
are dropped but for the first; the 5k generator's docstring promises a randomized
accumulator, but `_prepare` sorts away the shuffle of each attempt; JOB_FAILED can
miss a FAILED row; a job popped by a worker that dies is never picked up again;
`JOB_RETRIES` counts final failures; the weekly fetches, described as concurrent,
are serialised by their shared client; the executor's own defaults of
`min_probability` never apply, because the API always sends one.

## Abstractions

* A database session is one step. For `job_worker.py` `ExclusiveExecution` is
  what makes that sound: sessions of two workers on one row do not overlap. In
  `SelectionStore` every read and every commit is a step of its own.
* `job is None` in `process_job` cannot happen: rows are created before their
  message and never deleted.
* Payloads, results, error texts, progress and timestamps are left out, as are
  the parse errors of a message, which only the API writes. Redis itself does
  not restart.
* Requests that are refused with 401 or exempt from the limiter change none of
  its state. The TTL read for Retry-After is not a number in the model.
* In `TicketBuild` and `TicketBooking` the order of the lookups is free, the two
  providers have one feed, and any lookup may fail, whether the outcome is gone
  or the provider is. What a provider does with a request after the client has
  stopped waiting is a choice made when the request fails. A build that has
  ended keeps nothing but its selections, which the properties speak of.
* `ProviderClient` measures the age of a feed in ticks and leaves out
  `min_interval` and the sleeps; a call that never asks twice the same provider
  is a call with `MaxRetries = 0`.
* `JobExecution` has no faults but locks that run out: `jobs_faults` and
  `jobs_redelivery` have the others, with executions that return or raise
  freely. Payloads are valid; "rich" and "thin" say whether a search finds a
  ticket, which `Generators` looks into.
* `CustomTicket` and `Generators` take the market an outcome counts as for given:
  the aliases, specifiers and descriptions that decide it are texts.
  `actual_odds`, rounded to cents, is left out, and 502 stands for 503 too.
  `Search` is one step with the fetch that precedes it: `ProviderClient` models
  the fetch, and the search shares no state with it. Odds are integer logarithms
  also in `WeeklySafe`, whose code multiplies exact decimals; its score is exact
  there for up to six selections.

## Not modelled

The endpoints that list one market fetch, filter and sort. Analysis is one stateless request. Health, metadata,
configuration, engine parameters, instrumentation, migrations, UI, deployment
and load tests have no protocol of their own. `SelectionService.clear` has no
caller. `_normalize_event` and the Parse adapter's normalisation are conversions
of payloads that no property is about.

## Plan

Done, in this order: `JobQueue` with its abstract specification and proofs,
`RateLimiter` with its proof, `SessionTables`/`SelectionStore`, `TicketBuild`,
`ProviderClient`, `OddsOptimizer`/`CustomTicket`; then `JobExecution` over
`JobQueue`, `WeeklySafe` and `Generators` over `CustomTicket`, and
`TicketBooking`, which joins `ProviderClient` to the build and implements
`TicketBuild`; then the theorems about every component, those about `Generators`
last.

Next:

1. An abstract specification of a budgeted window for `RateLimiter`, and the
   proof that the limiter implements it.
2. The Parse adapter's normalisation, once a property is about it.
