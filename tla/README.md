# League Companion: a verification project

TLA+ models of League Companion: the backend (`backend/`, Go) and the feed of
matches of the Android app (`android/`, Kotlin), with the TLC configurations
that check them and proofs that the TLA+ proof system checks. Every definition
is translated from the code; `PROJECT.json` names the lines each one stands
for, the runs, the mistakes each property is shown to notice, the places where
the code and its documents disagree, and the hazards of the code.

Definitions whose name ends in `Bug`, or whose comment begins with "Mutant:",
are such mistakes; no specification uses them.

To check a run: `tlc -workers 2 -config SyncTicker.cfg MCSyncTicker` (the
configuration is named in `PROJECT.json`, the module is the `MC` module of the
table in section 2). To check the proofs: `tlapm M.tla` for `M` each of
`RateLimiterProofs`, `SyncRunnerProofs`, `SyncServerProofs`,
`SyncServiceProofs`, `RiotClientProofs`, `HttpApiProofs`, `AppFeedProofs` and
`PlayerStatsProofs`.

## 1. Inventory

The backend is one process. It keeps matches and ranks of *tracked* summoners
in PostgreSQL, reads them from the Riot API under the limits of one key, and
serves them to an Android app that caches them once more.

| Part | State | Operations | Talks to |
|---|---|---|---|
| Rate limiter, `internal/ratelimit` | per window the reserved moments it remembers; the latest moment ever reserved; a mutex | `Wait` (`reserve`, sleep, `rollback`) | called by every attempt of the Riot client, from handlers and workers |
| Riot client, `internal/riot` | none of its own; response cache, limiter | `Get...` = cache, then up to three attempts with backoff, then cache | limiter, cache, Riot |
| Response cache, `internal/cache` | map with expiry, or Redis | `Get`, `Set`, sweep | Riot client |
| Synchronisation service, `internal/syncer/service.go` | none; snapshots in locals | `SyncProfile`, `SyncSummoner`, `SyncMatches` | Riot client, storage |
| Background pool, `runner.go` | buffered channel, `quit`, workers, context | `Submit`, `Enqueue`, `worker`, `run`, `Shutdown` | service; `done` calls back to the ticker |
| Ticker, `ticker.go` | the pending tick, `stop`, the WaitGroup of the run | `loop`, `runOnce`, `waitBatch`, `dropPendingTick`, `Stop` | storage, pool |
| Storage, `internal/storage` | tables `summoners`, `ranked_stats`, `matches`, `match_participants` | one statement or transaction per call | service, handlers, ticker |
| HTTP API, `internal/httpapi` | none; the cooldown is read from `last_synced_at` | create, show, force a synchronisation, feed, statistics | service, pool, storage |
| Server, `cmd/server/main.go` | which parts are up | start, drain, stop in order | everything |
| Domain, `internal/domain` | none | mapping of Riot's answers, `AggregateStats` | service, handlers |
| Android app | Room database; flags, total and window of the view models | refresh, load more, track | HTTP API |

What makes it hard: callers of the limiter read the clock before they queue for
the mutex and may be cancelled in their sleep; `Submit` is a check and a send
that are not one step; `select` picks at random; Go's ticker keeps a tick for a
late reader; four parties have to go down in the right order while requests and
jobs go on; synchronisations of players who share matches interleave statement
by statement, may fail half-way and may be killed; a handler decides from rows
it read some steps ago; the app counts its offsets in a table that other
coroutines and the backend move under it. The full list, line by line, is under
`hazards` in `PROJECT.json`.

What makes each part correct:

* limiter - no more than `Limit` reservations in any interval `Per`, for all
  windows at once, and no needless waiting;
* pool - an accepted job runs once and in order, unless the pool is shut down;
  `Shutdown` returns, and then no worker is left;
* ticker - runs do not overlap, a run ends, a tick during a run is dropped, and
  `Stop` returns;
* server - the database pool is closed when nobody it waits for uses it any
  more, and the process ends;
* service - what is stored is consistent, a mark stands for stored matches, and
  a match that was missed is made up for;
* client and cache - every attempt passes the limiter and keeps Riot's
  `Retry-After`, a cached answer is no older than its time to live and one
  request, and the cache does not grow without bound;
* handlers - one request creates a row, `Retry-After` is exact, a
  synchronisation that was asked for shows in `last_synced_at`, and an outage of
  Riot does not hide a summoner who was added;
* statistics - sums, not averages of averages, over exactly the period, in an
  order that does not depend on that of a Go map;
* app - the total covers the page, the cached feed has no hole, and a patient
  user gets all of it.

## 2. Modules

| Module | Models | Checked by |
|---|---|---|
| `RateLimiter` | `ratelimit.go` | `MCRateLimiter`: run `limiter`; `RateLimiterProofs` |
| `LimiterSends` (extends `RateLimiter`) | the moments at which `Wait` returns | `MCLimiterSends`: run `limiter_sends` |
| `JobPool` | what the pool promises, without channels or goroutines | refined by `SyncRunner` |
| `SyncRunner` | `runner.go` | `MCSyncRunner`: run `runner`; `SyncRunnerProofs` |
| `SyncTicker` (extends `SyncRunner`) | `ticker.go` over the pool | `MCSyncTicker`: run `ticker`; `SyncServerProofs` |
| `SyncServer` (extends `SyncTicker`) | `run` and `stopRunner` of `main.go` over both | `MCSyncServer`: run `server`; `SyncServerProofs` |
| `MemoryCache` | `memory.go` | with `RiotClient` |
| `RiotClient` (extends `MemoryCache`) | `client.go` | `MCRiotClient`: run `client`; `RiotClientProofs` |
| `SyncService` | `service.go` over the statements of `internal/storage` | `MCSyncService`: runs `service`, `service_feed`; `SyncServiceProofs` |
| `HttpApi` | `createSummoner`, `getSummoner`, `forceSync`, their errors, and the rows they read | `MCHttpApi`: runs `http`, `http_cooldown`; `HttpApiProofs` |
| `AppFeed` | `SummonerViewModel` and `MatchRepository` of the app over `listMatches` of the backend | `MCAppFeed`: run `app`; `AppFeedProofs` |
| `PlayerStats` | `getStats` and `AggregateStats` | `MCPlayerStats`: run `stats`; `PlayerStatsProofs` |

### RateLimiter

`times` and `last` are `window.times` and `Limiter.last`; `pc`, `now`,
`deadline`, `at` and `due` are the locals of each call of `Wait`. The steps are
those another goroutine can see: `ReadClock` (`now := l.now()`, outside the
mutex), `Grant`, `Sleep` or `Refuse` (all of `reserve` under the mutex,
pruning included), `Wake` (the timer) and `Cancel` (the context ends the sleep
and `rollback` takes the lock again). `Prune`, `Earliest`, `Bounds`, `TakeBack`
are `prune`, `earliest`, the maximum `reserve` computes, and `window.rollback`.
Time is discrete and moves only by `Tick`, at any moment; a timer may be seen
late. `log` (all reservations not handed back), `prunedTo` and `lapsed` are
history.

`RespectsLimits` is stated of reservations and under `~lapsed`. The two moments
that set `lapsed` - a context ending between `ctx.Err()` and `l.now()`, and a
sleeper cancelled when its own moment has come - let a window forget something
that an older clock reading still needs. Without that condition the property
fails; `lapsed` names exactly the steps that break it.

`LimiterSends` adds one history variable, `sent`: the times at which calls of
`Wait` returned `nil`, which is when requests go out and what the tests of the
limiter measure. Reservations are spaced; requests need not be (section 4).

### SyncRunner, SyncTicker, SyncServer

`SyncRunner` has the two selects of `Submit` (`SubmitCheck`, `SubmitSend`,
`SubmitFull`), the two of `worker` (`WorkerCheck`, `WorkerExit`, `WorkerTake`),
`run` (`WorkerFinish`, whatever way a job ends) and the two waits of
`Shutdown`. What a job does is the business of `SyncService`. A job is its
summoner, the run of the ticker whose `done` it calls (0: none) and, as
history, its number.

`JobPool` is the abstract view: jobs start in the order of acceptance, each once,
at most `Capacity` wait, at most `Slots` run, and after the close at most
`Slots` more start: each worker may have passed its check of `quit` and then
take one job. `SyncRunner!KeepsPromise` is `Pool!Spec` under the mapping
written there: `started` is `accepted - Len(jobs)`, and `startedLate` is the
number of workers that took a job after `quit` (`Latecomers`).

`SyncTicker` adds `loop`, `runOnce`, `waitBatch`, `dropPendingTick` and `Stop`;
`outstanding[r]` is the WaitGroup of run `r`, which a job of an interrupted run
still decrements later. `running`, the compare-and-swap of `runOnce`, has no
state of its own: only `loop` calls `runOnce`, and `ticker` says where it is.
Here the handlers and `Shutdown` are unconstrained: the ticker is checked in the
widest environment, `SyncServer` then in its real one.

`SyncServer` walks through `run()`: a signal, or `ListenAndServe` failing;
`server.Shutdown` with or without a timeout; the deferred `ticker.Stop`,
`stopRunner`, and the close of cache and database. `SYNC_INTERVAL=0` (no
ticker) is the second disjunct of `ServerInit`. Requests arrive on connections
that are open already until `server.Shutdown` has returned nil: while it waits,
after it has given up, and after `ListenAndServe` has failed, when nobody waits
for them at all.

### MemoryCache, RiotClient

A cached answer is reduced to the moment at which Riot gave it (`asOf`) and the
moment at which it expires. `Live` is `Get`, `Set` sweeps first when the map has
reached `nextSweep`, as in the code, under the mutex and so in one step.

A call of `do` is in the limiter, in a request, in a pause or about to write to
the cache (`pc`); hits leave no trace and are not steps. The limiter is taken by
its promise: it lets a call pass at some moment (`Send`) or refuses it because
of the deadline (`LimiterRefuses`). `UpstreamError` (5xx) and `RateLimited` (429)
are the two errors that are retried, each followed by `Pause` or `GiveUp`;
`Rejected` is every other one. `CacheMayFail` makes reads and writes of the cache
fail at will, as Redis may and as a damaged entry does. The context may end in
the limiter, in a request or in a pause (`Cancel`). `paid` and `notBefore` are
history. Two calls for one key do not know of each other: the older answer may be
written last. `AnswersRecent` says how old it can be then; that bound is the time
to live *and* the timeout of a request, not the time to live alone.

### SyncService

One step per call of Riot and per statement or transaction of the database. The
snapshots `known` and `tracked` are locals that grow old while others write.
`played`, what Riot lists, grows meanwhile. Data are reduced to identities: a
match is a number in the order of play, ranks are "replaced at least once".
`Fails` is any error of a call (bounded by `MaxFailures`); `Abort` the errors
that end `SyncMatches`, `SkipMatch` those of one match, `RanksFail` those of
`syncRanks`; `Crash` kills every synchronisation and keeps the tables. The
foreign key of `match_participants` is `Admitted`. The short response cache of
the client (a minute for the list of matches) is not in this model: an answer is
that of the moment.

### HttpApi

The table `summoners` is `name` (its Riot ID, `None` for no row) and `mark`
(`last_synced_at`); `bearers` is who has borne a Riot ID of late, to which
`Rename` adds a player: the client keeps the answer of `GetAccountByRiotID` for a
day, so after a renaming `Resolve` may still find the former bearer. A request is handled once and keeps its answer, named by the error code
of the source. `createSummoner` is `Resolve` (`GetAccountByRiotID`), `Upsert`
(one statement, which tells whether it inserted) and `RespondCreated` (enqueue,
200 or 201), or `ProfileFails` with a cause and then `RespondStale` or
`RespondUpstreamError`; `RiotUnavailable`, `UpstreamCode` and `ByRiotID` are the
functions of these names. `forceSync` is three steps, because each of its
decisions is about something that may have changed since: the row
(`ForceSync`), the clock against the row (`CooldownCheck`), the pool
(`EnqueueSync`). Any statement may fail.

The pool and the ticker appear as far as `last_synced_at` is concerned: a job
begins, reads the clock at the end of its list (`JobStamps`), and writes it one
step later (`JobMarks`), or fails. `TickerSubmits` uses `RunsDoNotOverlap`,
which `SyncTicker` establishes. `Restart` drops requests and jobs and keeps the
table. `unread` is history: the requests whose lookup of a snapshot met an
error of the database, which are entitled to no answer.

### AppFeed

A coroutine of the view model suspends at each call: `refresh` lists the first
page and then awaits the profile, `loadMore` reads `cachedCount` for its offset
first. The backend answers in two queries, `ListByPUUID` and `CountByPUUID`,
with synchronisations in between (`StoreMatch`); `UpsertPage` is the
transaction of Room, `Fail` a request that fails at any point. Buttons are drawn
from `shown`, the last state Compose has collected, while a tap sets
`refreshing`: two taps on one drawn state start two coroutines, and the flag
goes out when the first of them returns. `Reopen` cancels the coroutines, makes
a new view model and keeps the database. A match is its place in the order of
`game_creation`.

Two things the backend can do defeat any client that pages by offset, and
`jumped` records them: a match stored between matches the app already has (one
whose download failed at first), and more than a page of new matches between
two first pages. Properties of the app are stated for feeds without them.

### PlayerStats

One request: `ParsePeriod` with its default and bounds, the two queries with
their errors, then the loop of `AggregateStats`, a row at a time (`AddRow`), and
the sort. The map of champions is walked in any order and `slices.SortFunc` is
not stable, so `SortAndCut` may leave every order that the comparison function
permits. KDA is compared as a fraction of integers. The clock is left out: a
row is as many days old as its index says. The answer is compared with
`Summary`, which counts what happened in the games of the period - a set of
games won, of kills, of deaths - and knows nothing of the loop.

## 3. Runs

| Run | Instance | States | Shows |
|---|---|---|---|
| `limiter` | 3 callers, 5 calls, windows 1/1 and 2/3, clock up to 3 | 552 thousand (symmetry) | `TypeOK`, `RespectsLimits`, `NoNeedlessWait` |
| `limiter_sends` | 3 callers, 5 calls, a window 2/3, clock up to 3 | violation | `SendsRespectLimits` |
| `runner` | 2 workers, 2 submitters, 5 jobs, queue 2 | 9 thousand | `RunnerTypeOK`, `NoneOutlivesShutdown`, `KeepsPromise`, `AcceptedRuns` |
| `ticker` | 2 workers, ticker and a handler, 2 summoners, 2 runs, queue 1 | 305 thousand | `TickerTypeOK`, `BatchCounted`, `RunsDoNotOverlap`, `NoQueuedTick`, `RunEnds`, `StopReturns` |
| `server` | 2 workers, a handler, 1 summoner, 2 runs, queue 1 | 84 thousand | `ServerTypeOK`, `PoolClosedLast`, `NothingAcceptedLate`, `Terminates` |
| `client` | 2 goroutines, 3 calls, 2 attempts, keys with time to live 2, 1 and 0, `Retry-After` above the ceiling of the pauses, sweeping from size 1 | 697 thousand | `TypeOK`, `EveryAttemptPaid`, `RetryAfterKept`, `AnswersRecent`, `SizeBounded` |
| `service` | 2 synchronisations, 2 players, a shared match and one of a single player, 1 failure or crash, the newest match asked for | 181 thousand | `TypeOK`, `OwnMatchInFeed`, `MarkedWhenComplete`, `EventuallyStored` |
| `service_feed` | the same without failures, the newest 2 | violation | `LastMatchesInFeed` |
| `http` | 2 requests, 2 players, 1 Riot ID, 2 workers, queue 1, a cooldown and a second of 2 ticks, clock up to 2, 1 renaming, 1 restart | 1.3 million (symmetry) | `HttpTypeOK`, `OneCreated`, `RetryAfterExact`, `ResultVisible`, `SnapshotServed` |
| `http_cooldown` | the same without restarts | violation | `NotMoreOften` |
| `app` | 2 coroutines, 3 matches, pages of 1, the screen opened twice | 1.4 million | `AppTypeOK`, `PageTotals`, `FeedGapless`, `FeedCompletes` |
| `stats` | 3 champions, 4 games, results that tie and that differ, a period of up to 4 days, default 3, the best 2 | 1.2 million | `StatsMatchReference`, `TopDetermined` |

Bounds. *Limiter*: one window fills with one reservation and another with two,
so both bind in turn; three callers give a stale reading, a later reservation
and a cancellation at once; five calls overfill both windows. *Pool*: a queue of
1 or 2 is full at once, so the drop of a job happens; two workers are the fewest
that finish out of order. *Ticker*: two summoners and a queue of one drop part of
a batch; two runs show overlap and jobs of an interrupted run that finish in the
next one; a handler's job takes up room of its own. *Client*: two calls for one
key overlap and a third finds what they left; a pause ends before or after an
entry expires; with two keys that can be cached, the map reaches its threshold,
is swept and has the threshold raised. *Service*: two synchronisations are two
different players or the same one twice; asking for the newest one of two
matches makes matches fall off the list. A list of more than one match, of which
one is skipped and the others are stored, is left to the theorem `MarksComplete`:
with lists of two and three matches the liveness property takes longer than a run
may, though it holds. *Http*: two requests are the fewest
that race for a row, a cooldown or the room in the queue; with one Riot ID and
two players a renaming gives it two rows; a clock up to 2 lets a cooldown run
out, and a second of two ticks makes rounding visible. *App*: three matches in
pages of one are a first, a middle and a last page; two coroutines are a refresh
and a load that overlap, or two of a kind. *Stats*: four games by three champions
give ties in games and in KDA, a champion that is cut off, and a mean of
averages that differs from the average.

Named bounds: `MaxClock`, `MaxTime` (the clock), `MaxCalls` (calls of limiter
and client), `MaxJobs` (calls of `Submit` by handlers), `MaxRuns` (ticks),
`MaxFailures` (errors and crashes), `MaxRenames`, `MaxRestarts` (of the process,
or of the screen), `N` (matches of the feed), `Games` (rows of a player).

`CHECK_DEADLOCK FALSE` everywhere: a run is over when its bounds are used up,
its requests are answered or the pool is closed.

Symmetry is used in `limiter` and `limiter_sends` (callers) and in the `http` runs (requests,
players, workers), where nothing tells the values apart and no liveness is
checked; their action properties quantify over these sets and are symmetric, too.

### Fairness

* Goroutines that can run do run: workers, the loop, the main goroutine
  (`WorkersFair`, `PoolFair`, `WF(TickerStep)`, `WF(MainStep)`), since the Go
  scheduler is preemptive.
* `SF(TickerExit)`: Go's `select` picks uniformly among ready cases, so it cannot
  prefer a tick to `stop` for ever.
* A job ends once its context is cancelled (`CancelledJobsEnd`): every call in
  it takes the context. That a job ends *by itself* takes up to ten minutes
  (`jobTimeout`), more than `Shutdown` waits; only `AcceptedRuns` and `RunEnds`
  assume it, as a premise of the formula (`JobsEnd`, `BatchesEnd`).
* Requests need not end; `Terminates` does not rely on them (`DrainTimeout`).
* `EventuallyStored` assumes that each tracked summoner is synchronised again
  and again (strong fairness of `SyncSummoner`). The ticker submits all of them on every
  tick; when the queue is full the ones left over depend on the order of a map,
  which Go randomises, so no summoner is left out for ever.
* `AppFeed` assumes of the app only that Compose draws a state that has changed
  (`WF(Render)`). What `FeedCompletes` needs of the user and the network - pulls,
  and taps while the button is there, that succeed again and again - is its
  premise, `Patient`.

## 4. Where code and documents disagree

Shown by a run:

* `service_feed` - SPEC.md promises profile and last matches of an added
  summoner; matches already stored for somebody else never enter the feed,
  because `KnownIDs` asks about matches and not about participants.
* `http_cooldown` - "not more often than every two minutes" for
  `POST .../sync`; every request that arrives before the first synchronisation
  ends is accepted as well, because the cooldown is counted from
  `last_synced_at`. What does hold is `ResultVisible`: the mark that follows is
  later than the one the request saw.
* `limiter_sends` - PROGRESS.md:236 has "no more than N in any window `Per`" as an
  exact guarantee, in contrast to a bucket that lets a 21st request out within a
  second. It holds of reserved moments (`RespectsLimits`). `Wait` does not look
  at the clock again before it returns, so a caller that is held up between its
  reading and its return, or that sees its timer late, goes out late, and the
  next one, at its reserved moment, goes out less than `Per` behind it.

Seen while modelling; no run, because the code keeps nothing there that a
property could be about, or because a model would only restate a line:

* a test's comment says that a cancelled wait gives its token back
  (`ratelimit_test.go:194`); only the newest reservation does;
* `backend/README.md:387` has the ticker stop before HTTP is closed; the code
  drains HTTP first, with a comment on why;
* `backend/README.md:270` has `last_synced_at` mean that the data are exactly
  this fresh; it is set although the ranks could not be stored, and two
  synchronisations of one summoner may write their clock readings in the wrong
  order (`service.go:166`);
* an error of the database in `createSummoner` is answered `riot_unavailable`
  or, if a snapshot can be read, served as stale; the table of errors in
  `backend/README.md:293` has 500 for it;
* two `Replace` transactions of one summoner with different queues leave a
  mixture of both under read committed (`ranked.go:22`);
* the feed is ordered by `game_creation` without a tie-break, so that two
  matches of one millisecond may swap places between two pages;
* in the app, after more than a page of new matches between two refreshes the
  gap is never fetched and the button never goes (`jumped`), and after a start
  without a network there is no total and so no button at all.

## 5. Proofs

For every value of the constants that the modules' named assumptions allow
(positive limits, attempts and sizes of pages; a finite set of workers that is not
empty; distinguished values that are none of the others), tlapm checks:

| Module | Theorems |
|---|---|
| `RateLimiterProofs` | `TypeCorrect`, `Invariance`, `LimitsRespected`, `WindowsSorted`, `WaitsNeeded`, `AnyInterval` |
| `SyncRunnerProofs` | `RunnerTypeCorrect`, `NoneOutlives`, `RunnerImplementsPool`, `JobsKept`, `OneLateJob`, `WorkersWindDown` |
| `SyncServerProofs` | of the ticker: `TickerTypeCorrect`, `BatchesCounted`, `RunsFollowOneAnother`, `TicksNotQueued`; of the process: `ServerTypeCorrect`, `ClosesLast`, `NoneAcceptedLate`, `ServerImplementsPool`, `ServerKeepsJobs`, `ServerWindsDown`, `RunsAttended`, `JobsCutShortLast`, `NothingHalfDone` |
| `SyncServiceProofs` | `TypesKept`, `OwnMatchesSaved`, `MarksComplete`, `RowsSound`, `FeedCompleteButKnown` |
| `RiotClientProofs` | `TypesKept`, `AttemptsPaid`, `RetryAfterRespected`, `CachedAnswersRecent`, `CacheBounded` |
| `HttpApiProofs` | `HttpTypeCorrect`, `CreatedOnce`, `ResultSeen`, `RetryAfterCorrect`, `SnapshotsServed` |
| `AppFeedProofs` | `TotalsCover`, `FeedUnbroken`, `AppTypeCorrect` |
| `PlayerStatsProofs` | `SumsMatch`, `TopOrdered`, `SortHasOneOutcome` |

Each module states an inductive invariant in named parts, proves that the initial
states satisfy it and that every step keeps it - one step per action, one lemma
per part that an action can disturb - and reads the properties off it.

*Limiter.* `RespectsLimits` is not inductive: a reservation consults only what
its windows still remember and its own, possibly old, clock reading. `IInv` adds
that every window remembers the newest part of all reservations
(`RemembersNewest`), that what it has forgotten was a whole interval old for some
clock reading (`ForgetsOnlyTheOld`), that reservations are in order and bounded
by `last` (`SortedLog`), that readings come from the past (`ReadingsOld`), and
that the latest reading used for pruning cannot exceed what holds the next
reservation back (`HeldBack`) - the part that a refused call would break if its
reading lay behind its own deadline, which is what `lapsed` excludes. With these,
a new moment lies at least `Per` behind the `Limit`-th last reservation whether
the window still remembers that one or not. `WaitsNeeded` is the other
direction: a pruned window that is full ends as the log of reservations does, so
what delays a caller is a reservation that counts. `AnyInterval` puts the limit in
the terms of Riot: `Limit + 1` reservations in any interval of length `Per` would
hold two that are `Limit` apart in the log and too close in time.

*Pool.* `Numbered` ties the counters to the places: the channel holds the
accepted jobs that have not started, in order; the workers hold those that
have started and not ended, no two the same; counting the places gives
`JobsKept`. `LateOnce` says that a worker has taken at most one job after `quit`,
and `ClosedFirst` that workers exit, and contexts are cancelled, only after it is
closed. `WorkersWindDown` gives each place of a worker a rank that every step
after `quit` lowers: that `Shutdown` returns then needs fairness alone. `RunnerImplementsPool` maps every step to a
step of `JobPool` or a stutter. Steps are stated for `RunnerMove`, which covers
the pool's own steps and those that the ticker takes part in, so that the
modules that extend this one use the same lemmas.

*Ticker.* `BatchCounted` is nearly inductive by itself: the unfinished jobs of a
run are in three places (on their way to the channel, in it, with a worker), and
the proof follows a job from one to the next. `OneAtATime` and `TickFresh` give
`RunsDoNotOverlap` and `NoQueuedTick`.

*Server.* `Ordered` says what main knows of the loop and of the pool in each phase;
`Drains` that a handler's call of `Submit` belongs to a request under way and
that a drained server has none.
Every step of the process is a step of the ticker's module or leaves it alone,
and so the invariants of pool and ticker, and the refinement, carry over.
`RunsAttended` is what keeps `waitBatch` from a wait without end: its WaitGroup
counts jobs in the channel and with workers (`BatchCounted`), and the order of
main keeps the workers until the loop is gone. `NothingHalfDone` joins the order
of main with the count of the pool: with all workers gone, what is not over waits
in the channel and was never begun.

*Service.* A mark is complete because of `NothingForgotten`: what a
synchronisation was told to fetch and has not skipped is stored or still on its
list. `OwnMatches` says that a synchronisation of a summoner saves only
matches of that summoner, who is among the tracked ones of its snapshot; so every
match that is stored gets a row of somebody (`RowsSound`). The same theorem has
the foreign key of `match_participants` never refuse a row: the snapshot is older
than the insert, but a summoner once tracked stays. The branch of `SkipMatch` for
a refused row is dead as long as nothing deletes summoners.
`FeedCompleteButKnown` is the other side of the run `service_feed`: the matches that
`KnownIDs` finds are the only ones that stay out of the feed without having failed.

*Client.* `CacheSound`: an entry expires at most one time to live and one request
after the moment Riot gave the answer. `Sound` says for each place in `do` what
has been paid for and what `Retry-After` still forbids. The size follows from the
arithmetic of the sweep.

*Handlers.* `Progress` and `Claimed` give `OneCreated` (a row does not go away, so
whoever inserted it is the only one). `OnTime` and `Accepted` give
`ResultVisible`: a job stamps after the request that asked for it was let pass,
and that one was let pass a cooldown after the mark it saw. `Measured` and
`SecondsExact` give `RetryAfterExact` for any resolution of the clock.
`SnapshotServed` needs that among the rows of a Riot ID one has the latest mark
(`SnapshotFound`); there may be any number of rows, and the marks are bounded, so
the order on them is well founded.

*App.* `PageTotals` follows since rows only grow: what was within the rows when the
page was read still is when they are counted. For `FeedGapless`, `Offsets` and
`Touching` say that a page starts no further down than the cache is long, that
the cache is no more than a page behind the backend, and so that the page touches
the cache, above it, below it or within it; while the cache is empty, all pages on their
way are first pages that touch each other.

*Statistics.* `SumsRight` says that what the loop has added so far are the sums over
the rows it has seen. The reference counts sets of things, so one row more adds a
set that is disjoint from the others (`ThingsAdd`) and no induction over the
rows is needed. `TopOrdered` goes through places: the champion at place `p` has
`p - 1` others ahead of it. That there is one order only rests on `StrictOrder`;
its hard part is transitivity, where two KDAs with different denominators are
compared by cross-multiplication (`Products`, `Cancel`).

Only model-checked: liveness (`AcceptedRuns`, `RunEnds`, `StopReturns`,
`Terminates`, `EventuallyStored`, `FeedCompletes`), which is out of the prover's
reach. `JobsKept`, `WorkersWindDown`, `RunsAttended` and `JobsCutShortLast` are the
safety that `AcceptedRuns`, `RunEnds` and `Terminates` rest on: no job goes astray,
no worker leaves while it is waited for, and shutting down ends after boundedly many
steps of each worker. All invariants and action properties of the runs that are
expected to pass are proved.

## 6. How the pieces rest on each other

* `SyncServer` extends `SyncTicker`, which extends `SyncRunner`: composition by
  conjunction of actions over disjoint variables. `JobPool` is implemented by
  the first and the last of them.
* `RiotClient` extends `MemoryCache`; it takes the limiter by the promise that
  `RateLimiter` keeps, that every call passes at some moment or is refused.
* `HttpApi` takes the pool by the promise of `JobPool` (a job is accepted when there
  is room, and starts in order) and the ticker by `RunsDoNotOverlap`; it takes a
  synchronisation as what it does to `last_synced_at`, which `SyncService` details.
* `SyncService` takes a synchronisation as a process of its own: that it is a job
  of the pool limits only how many there are at once.
* `AppFeed` takes the backend's synchronisations as rows that appear in any order.

## 7. Not modelled

* Configuration, migrations, connecting to PostgreSQL, the choice between Redis and
  memory: sequential, once, before anything runs. `cmd/riotcheck`: a command run
  by hand, one call after the other. The tables of routing: a model would copy
  them.
* `RawByID` and `getMatch`, which read one column; the shape of the JSON, the
  mapping field by field in `mapping.go`, middleware, logging, texts.
* In the app: `SummonerRepository`, whose calls are one request and one
  transaction each, the view models of search, match and statistics, with a
  single request each, and the screens. `untrack`, which would delete the cached
  rows with the summoner, has no caller.
* Handlers that `server.Shutdown` has given up on go on while the database pool
  is closed: nothing waits for them, so no property can be stated that the code
  would keep.
* More than `count` new games between two synchronisations leave a hole; the code
  makes no promise about it. Overlapping `Replace` transactions are the step
  `RanksFail`, not two sets of rows.
